---- MODULE Spec2Model ----
(***************************************************************************)
(* Particle engine of src/particles.js: Particle, ParticlePool and         *)
(* ParticleEngine, with the host (clock, animation-frame queue, page       *)
(* visibility, resize) as the environment.                                 *)
(*                                                                         *)
(* Numbers.  JavaScript doubles are kept in fixed point with Scale parts   *)
(* per unit: positions and sizes in 1/Scale px, velocities in 1/Scale px   *)
(* per frame, angles in 1/Scale rad, life in 1/Scale.  Times are in ms.    *)
(* Math.random() is a pseudo random generator: a call is identified by the *)
(* generator's seed at the start of the operation, the index of the        *)
(* particle being spawned and the position of the call in that iteration.  *)
(***************************************************************************)
EXTENDS Integers, Sequences, FiniteSets, TLC

\* ------------------------------------------------------------------ bounds
\* PARTICLE_CONFIG.maxParticles (200), mobile.maxParticles (100) and
\* poolSize (300), scaled down keeping mobile < desktop < pool.
DesktopMaxParticles == 2
MobileMaxParticles == 1
poolSize == 3
\* largest count argument of a spawn call
MaxCount == 3
\* host clock: time between two animation frames, and the number of such
\* steps in a run
FrameMs == 500
MaxFrames == 1
\* cap of the engine's frameCount (frames counted inside one FPS window)
\* beyond which the page is not shown again
MaxFrameCount == 2
\* number of clock steps in a run of the scheduling specifications
SchedFrames == 2
\* number of clock steps in a run that outlasts every particle
LiveFrames == 4
\* EFFECTS_CONFIG.ripple.maxRipples (10 in the page), scaled
maxRipples == 2
\* ripples created beyond the cap before their removal timers fire
ExtraRipples == 2
\* GIFT_CONFIG.confettiCount (50 in the page), scaled
confettiCount == 3
\* calls of createConfetti() whose cleanup timers are pending together
MaxConfettiCalls == 5
\* calls of GiftController.reset() in one run
MaxResets == 1
\* submissions of the message form in one run
MaxSubmits == 2
\* particles of one rain burst (6 in the page), scaled
RainPerBurst == 1
\* sparkles of one rain burst (5 in the page), scaled
SparklesPerBurst == 1
\* rain bursts whose elements wait for their timers together
MaxRainBursts == 3
\* burst timers pending together
MaxBurstTimers == 2
\* activateKey calls suspended on audio playback together
MaxSuspended == 2
\* calls of PianoController.reset() in one run
MaxPianoResets == 1
\* section transitions in progress or just completed together
MaxRunning == 2
\* MaxCalls: emitter calls after which the page makes no more of them, in the
\* runs where the emitters come to rest: enough to pass the ripple cap
MaxCalls == maxRipples + 1

\* ------------------------------------------------------- program constants
Scale == 1000
MathPI == 3142
DesktopLifetime == 2000
MobileLifetime == 1500
SpeedMin == 1
SpeedMax == 4
SizeMin == 4
SizeMax == 10
GravityMilli == 50
FrictionPct == 98
SpawnRatePct == 50
TrailLifetime == 1000
FpsWindowMs == 1000
FountainSpread == 500
\* MESSAGE_CONFIG.maxRetries, minChars, maxChars
maxRetries == 3
minChars == 5
\* GIFT_CONFIG.countdownDuration
countdownDuration == 5
maxChars == 2000
\* PIANO_CONFIG.requiredKeysForUnlock
requiredKeysForUnlock == 3
ResetSize == 5
Undefined == -1

colors == <<"#4A90E2", "#2ECC71", "#A8E6CF", "#FF7F50", "#FF6B9D">>

MaxTime == MaxFrames * FrameMs
SchedTime == SchedFrames * FrameMs
LiveTime == LiveFrames * FrameMs
TwoPi == 2 * MathPI
HalfPi == MathPI \div 2

\* ------------------------------------------------------------ environment
\* seeds of Math.random()
Seeds == {0}
Counts == 1 .. MaxCount
\* call sites: a position and an options object (keys angle, speed, size,
\* color, lifetime, each optional)
NoOptions == [k \in {} |-> 0]
DefaultSite == [x |-> 100, y |-> 100, options |-> NoOptions]
CallSites ==
  { DefaultSite,
    [x |-> 300, y |-> 200,
     options |-> [angle |-> 0, speed |-> 5 * Scale, size |-> 6 * Scale,
                  color |-> "#FFD700", lifetime |-> 500]] }
DefaultViewport == [w |-> 800, h |-> 600, dpr |-> 1]
Viewports == { DefaultViewport, [w |-> 400, h |-> 700, dpr |-> 2] }

\* ------------------------------------------------------------------- math
\* Math.random(): value in [0, 1) as 0 .. Scale-1
Random(seed, i, slot) ==
  ((seed * 613 + i * 271 + slot * 397 + 131) * 7) % Scale

\* cosine of x in [0, pi/2] by its Taylor series, in fixed point
CosQ(x) ==
  LET x2 == (x * x) \div Scale
      t1 == x2 \div 2
      t2 == (t1 * x2) \div (12 * Scale)
      t3 == (t2 * x2) \div (30 * Scale)
      t4 == (t3 * x2) \div (56 * Scale)
  IN  Scale - t1 + t2 - t3 + t4

Cos(a) ==
  LET m == a % TwoPi
  IN  IF m <= HalfPi THEN CosQ(m)
      ELSE IF m <= MathPI THEN 0 - CosQ(MathPI - m)
      ELSE IF m <= MathPI + HalfPi THEN 0 - CosQ(m - MathPI)
      ELSE CosQ(TwoPi - m)

Sin(a) == Cos(a - HalfPi)

\* Math.ceil(count * spawnRate)
CeilRate(count) == (count * SpawnRatePct + 99) \div 100

\* a ?? b on an options object
Opt(options, key, default) ==
  IF key \in DOMAIN options THEN options[key] ELSE default

\* { ...defaults, ...options }
Merge(defaults, options) ==
  [k \in (DOMAIN defaults) \cup (DOMAIN options) |->
     IF k \in DOMAIN options THEN options[k] ELSE defaults[k]]

\* ---------------------------------------------------------------- Particle
\* A particle object is a record of its fields.  angle and speed record the
\* locals of the last spawn (the launch direction and speed), from which vx
\* and vy were computed.
NewParticle(cfgLifetime) ==
  [active |-> FALSE, x |-> 0, y |-> 0, vx |-> 0, vy |-> 0,
   size |-> ResetSize * Scale, color |-> "#4A90E2", life |-> Scale,
   maxLife |-> cfgLifetime, birthTime |-> 0, rotation |-> 0, rotationSpeed |-> 0,
   angle |-> 0, speed |-> 0]

\* Particle.reset(): the assignments it makes to the object p
ParticleReset(p, cfgLifetime) ==
  [p EXCEPT !.active = FALSE, !.x = 0, !.y = 0, !.vx = 0, !.vy = 0,
            !.size = ResetSize * Scale, !.color = "#4A90E2", !.life = Scale,
            !.maxLife = cfgLifetime, !.birthTime = 0, !.rotation = 0,
            !.rotationSpeed = 0, !.angle = 0, !.speed = 0]

\* spawn() that assigns color only when the caller overrides it
ParticleSpawnKeepsColor(p, x, y, options, seed, i, t, cfgLifetime) ==
  LET angle == Opt(options, "angle", (Random(seed, i, 2) * TwoPi) \div Scale)
      speed == Opt(options, "speed",
                   Random(seed, i, 3) * (SpeedMax - SpeedMin) + SpeedMin * Scale)
  IN  [p EXCEPT
         !.active = TRUE, !.x = x * Scale, !.y = y * Scale,
         !.vx = (Cos(angle) * speed) \div Scale,
         !.vy = (Sin(angle) * speed) \div Scale,
         !.size = Opt(options, "size",
                      Random(seed, i, 4) * (SizeMax - SizeMin) + SizeMin * Scale),
         !.color = Opt(options, "color", p.color),
         !.life = Scale,
         !.maxLife = Opt(options, "lifetime", cfgLifetime),
         !.birthTime = t,
         !.rotation = (Random(seed, i, 6) * TwoPi) \div Scale,
         !.rotationSpeed = (Random(seed, i, 7) - Scale \div 2) \div 10,
         !.angle = angle, !.speed = speed]

\* Particle.spawn(x, y, options) at time t: the assignments it makes to the
\* object p
ParticleSpawn(p, x, y, options, seed, i, t, cfgLifetime) ==
  LET angle == Opt(options, "angle", (Random(seed, i, 2) * TwoPi) \div Scale)
      speed == Opt(options, "speed",
                   Random(seed, i, 3) * (SpeedMax - SpeedMin) + SpeedMin * Scale)
  IN  [p EXCEPT
         !.active = TRUE, !.x = x * Scale, !.y = y * Scale,
         !.vx = (Cos(angle) * speed) \div Scale,
         !.vy = (Sin(angle) * speed) \div Scale,
         !.size = Opt(options, "size",
                      Random(seed, i, 4) * (SizeMax - SizeMin) + SizeMin * Scale),
         !.color = Opt(options, "color",
                       colors[((Random(seed, i, 5) * Len(colors)) \div Scale) + 1]),
         !.life = Scale,
         !.maxLife = Opt(options, "lifetime", cfgLifetime),
         !.birthTime = t,
         !.rotation = (Random(seed, i, 6) * TwoPi) \div Scale,
         !.rotationSpeed = (Random(seed, i, 7) - Scale \div 2) \div 10,
         !.angle = angle, !.speed = speed]

\* update() that computes life and never deactivates
ParticleUpdateNeverDeactivates(p, t) ==
  IF ~p.active THEN p
  ELSE LET vy1 == p.vy + GravityMilli
           vx2 == (p.vx * FrictionPct) \div 100
           vy2 == (vy1 * FrictionPct) \div 100
           age == t - p.birthTime
           life == Scale - (age * Scale) \div p.maxLife
       IN  [p EXCEPT !.vx = vx2, !.vy = vy2,
                     !.x = p.x + vx2, !.y = p.y + vy2,
                     !.rotation = p.rotation + p.rotationSpeed,
                     !.life = life]

\* update() that deactivates only when life < 0
ParticleUpdateStrictExpiry(p, t) ==
  IF ~p.active THEN p
  ELSE LET vy1 == p.vy + GravityMilli
           vx2 == (p.vx * FrictionPct) \div 100
           vy2 == (vy1 * FrictionPct) \div 100
           age == t - p.birthTime
           life == Scale - (age * Scale) \div p.maxLife
       IN  [p EXCEPT !.vx = vx2, !.vy = vy2,
                     !.x = p.x + vx2, !.y = p.y + vy2,
                     !.rotation = p.rotation + p.rotationSpeed,
                     !.life = life,
                     !.active = ~(life < 0)]

\* Particle.update() at time t
ParticleUpdate(p, t) ==
  IF ~p.active THEN p
  ELSE LET vy1 == p.vy + GravityMilli
           vx2 == (p.vx * FrictionPct) \div 100
           vy2 == (vy1 * FrictionPct) \div 100
           age == t - p.birthTime
           life == Scale - (age * Scale) \div p.maxLife
       IN  [p EXCEPT !.vx = vx2, !.vy = vy2,
                     !.x = p.x + vx2, !.y = p.y + vy2,
                     !.rotation = p.rotation + p.rotationSpeed,
                     !.life = life,
                     !.active = ~(life <= 0)]

\* Particle.draw(ctx) paints the particle iff this holds
ParticleDraws(p) == p.active /\ ~(p.life <= 0)

\* ------------------------------------------------------------ ParticlePool
\* The pool is [particles, pool, active, held, used]: the particle objects
\* by identity, the free list and the live list (arrays of identities), and
\* the record of the calls: held, the particles handed out by get() and not
\* passed to release() since, and used, the particles that have been spawned
\* at least once.
IndexOf(seq, e) ==
  IF \E k \in 1 .. Len(seq) : seq[k] = e
  THEN CHOOSE k \in 1 .. Len(seq) : seq[k] = e /\ \A j \in 1 .. (k - 1) : seq[j] # e
  ELSE 0

RemoveAt(seq, k) == [j \in 1 .. (Len(seq) - 1) |-> IF j < k THEN seq[j] ELSE seq[j + 1]]

\* new Particle(): a fresh identity
NewId(st) ==
  CHOOSE n \in 1 .. (Cardinality(DOMAIN st.particles) + 1) : n \notin DOMAIN st.particles

\* objects no list refers to are garbage
Collect(st) ==
  LET used == {st.pool[k] : k \in 1 .. Len(st.pool)} \cup
              {st.active[k] : k \in 1 .. Len(st.active)}
  IN  [st EXCEPT !.particles = [id \in used |-> st.particles[id]],
                 !.used = st.used \cap used]

\* ParticlePool constructor
PoolNew(size, cfgLifetime) ==
  [particles |-> [id \in 1 .. size |-> NewParticle(cfgLifetime)],
   pool |-> [k \in 1 .. size |-> k],
   active |-> << >>,
   held |-> {},
   used |-> {}]

\* ParticlePool.get(): the new live particle is the last of active
PoolGet(st, cfgLifetime) ==
  IF Len(st.pool) > 0
  THEN LET id == st.pool[Len(st.pool)]
       IN  [st EXCEPT !.pool = SubSeq(st.pool, 1, Len(st.pool) - 1),
                      !.active = Append(st.active, id),
                      !.held = st.held \cup {id}]
  ELSE LET id == NewId(st)
       IN  [particles |-> [j \in (DOMAIN st.particles) \cup {id} |->
                             IF j = id THEN NewParticle(cfgLifetime)
                             ELSE st.particles[j]],
            pool |-> st.pool,
            active |-> Append(st.active, id),
            held |-> st.held \cup {id},
            used |-> st.used]

\* release() that tests the index found with > 1: the first live particle
\* is never removed
PoolReleaseSkipsFirst(st, id, cfgLifetime) ==
  LET index == IndexOf(st.active, id)
      act == IF index > 1 THEN RemoveAt(st.active, index) ELSE st.active
      free == IF Len(st.pool) < poolSize THEN Append(st.pool, id) ELSE st.pool
  IN  Collect([particles |-> [st.particles EXCEPT
                              ![id] = ParticleReset(st.particles[id], cfgLifetime)],
               pool |-> free,
               active |-> act,
               held |-> st.held \ {id},
               used |-> st.used])

\* release() that returns the particle to the free list without the
\* capacity check
PoolReleaseAlwaysPushes(st, id, cfgLifetime) ==
  LET index == IndexOf(st.active, id)
      act == IF index > 0 THEN RemoveAt(st.active, index) ELSE st.active
  IN  Collect([particles |-> [st.particles EXCEPT
                              ![id] = ParticleReset(st.particles[id], cfgLifetime)],
               pool |-> Append(st.pool, id),
               active |-> act,
               held |-> st.held \ {id},
               used |-> st.used])

\* release() that does not reset the particle
PoolReleaseWithoutReset(st, id, cfgLifetime) ==
  LET index == IndexOf(st.active, id)
      act == IF index > 0 THEN RemoveAt(st.active, index) ELSE st.active
      free == IF Len(st.pool) < poolSize THEN Append(st.pool, id) ELSE st.pool
  IN  Collect([particles |-> st.particles,
               pool |-> free,
               active |-> act,
               held |-> st.held \ {id},
               used |-> st.used])

\* ParticlePool.release(particle)
PoolRelease(st, id, cfgLifetime) ==
  LET index == IndexOf(st.active, id)
      act == IF index > 0 THEN RemoveAt(st.active, index) ELSE st.active
      free == IF Len(st.pool) < poolSize THEN Append(st.pool, id) ELSE st.pool
  IN  Collect([particles |-> [st.particles EXCEPT
                              ![id] = ParticleReset(st.particles[id], cfgLifetime)],
               pool |-> free,
               active |-> act,
               held |-> st.held \ {id},
               used |-> st.used])

\* update() that calls particle.update twice on each particle
RECURSIVE PoolUpdateLoopTwice(_, _, _, _)
PoolUpdateLoopTwice(st, i, t, cfgLifetime) ==
  IF i < 1 THEN st
  ELSE LET id == st.active[i]
           p == ParticleUpdate(ParticleUpdate(st.particles[id], t), t)
           st1 == [st EXCEPT !.particles[id] = p]
           st2 == IF ~p.active THEN PoolRelease(st1, id, cfgLifetime) ELSE st1
       IN  PoolUpdateLoopTwice(st2, i - 1, t, cfgLifetime)

\* ParticlePool.update(): i runs from active.length - 1 down to 0
RECURSIVE PoolUpdateLoop(_, _, _, _)
PoolUpdateLoop(st, i, t, cfgLifetime) ==
  IF i < 1 THEN st
  ELSE LET id == st.active[i]
           p == ParticleUpdate(st.particles[id], t)
           st1 == [st EXCEPT !.particles[id] = p]
           st2 == IF ~p.active THEN PoolRelease(st1, id, cfgLifetime) ELSE st1
       IN  PoolUpdateLoop(st2, i - 1, t, cfgLifetime)

\* update() that walks the live list from its first particle to its last
RECURSIVE PoolUpdateForwardLoop(_, _, _, _)
PoolUpdateForwardLoop(st, i, t, cfgLifetime) ==
  IF i > Len(st.active) THEN st
  ELSE LET id == st.active[i]
           p == ParticleUpdate(st.particles[id], t)
           st1 == [st EXCEPT !.particles[id] = p]
           st2 == IF ~p.active THEN PoolRelease(st1, id, cfgLifetime) ELSE st1
       IN  PoolUpdateForwardLoop(st2, i + 1, t, cfgLifetime)

PoolUpdateForward(st, t, cfgLifetime) == PoolUpdateForwardLoop(st, 1, t, cfgLifetime)

PoolUpdate(st, t, cfgLifetime) == PoolUpdateLoop(st, Len(st.active), t, cfgLifetime)

\* ParticlePool.draw(): the particles painted, in live-list order
PoolDraw(st) ==
  SelectSeq(st.active, LAMBDA id : ParticleDraws(st.particles[id]))

\* ParticlePool.draw(): the particle objects as Particle.draw reads them
PoolPainted(st) ==
  [k \in 1 .. Len(PoolDraw(st)) |-> st.particles[PoolDraw(st)[k]]]

\* ParticlePool.clear(): active.forEach(release); forEach visits index k of
\* the array as it is when k is reached, up to the length at the start
RECURSIVE PoolClearLoop(_, _, _, _)
PoolClearLoop(st, k, n, cfgLifetime) ==
  IF k > n THEN st
  ELSE IF k > Len(st.active) THEN PoolClearLoop(st, k + 1, n, cfgLifetime)
  ELSE PoolClearLoop(PoolRelease(st, st.active[k], cfgLifetime), k + 1, n, cfgLifetime)

PoolClear(st, cfgLifetime) == PoolClearLoop(st, 1, Len(st.active), cfgLifetime)

\* ---------------------------------------------------------- ParticleEngine
VARIABLES
  isMobile,       \* IS_MOBILE_DEVICE
  now,            \* host clock (Date.now(), performance.now()), ms
  hidden,         \* document.hidden
  rafQueue,       \* animation-frame requests pending in the host
  particleEngine, \* the variable particleEngine holds an engine
  inited,         \* this.pool is not null: init() came to build the pool
  canvas,         \* the canvas element: attached, width, height, ctx scale
  size,           \* this.width, this.height
  animationId,    \* this.animationId, 0 for null
  lastTime,       \* this.lastTime
  fpsState,       \* this.fps, this.frameCount, this.fpsUpdateTime
  particles,      \* the particle objects of the pool, by identity
  pool,           \* ParticlePool.pool, the free list
  active,         \* ParticlePool.active, the live list
  held,           \* particles got from the pool and not released since
  used,           \* particles spawned at least once
  lastOp,         \* the operation that produced this state
  script,         \* how far the evaluation of particles.js has come
  windowParticleEngine, \* window.particleEngine holds an engine
  rippleEffect,   \* RippleEffect: container, ripples, elements, timers
  confettiEngine, \* ConfettiEngine: particles and their cleanup timers
  rainEngine,     \* RainEngine: isActive, burst timers, elements, timers
  calls,          \* emitter calls made so far, counted up to MaxCalls
  messageForm,    \* MessageFormController and its FormStateManager state
  emailSend,      \* the EmailService.send call in progress
  gift,           \* GiftController: state manager, countdown, open timers
  piano,          \* PianoController: state manager, suspended key calls, button
  appState,       \* AppStateManager.state
  transitions,    \* TransitionManager: the calls in progress and their timers
  storage         \* the state saved in localStorage, if any

vars == << isMobile, now, hidden, rafQueue, particleEngine, inited, canvas, size, animationId,
           lastTime, fpsState, particles, pool, active, held, used, lastOp,
           script, windowParticleEngine, rippleEffect, confettiEngine, rainEngine,
           calls, messageForm, emailSend, gift, piano, appState, transitions, storage >>

hostVars == << isMobile, now, hidden >>
loopVars == << rafQueue, animationId, lastTime, fpsState >>
surfaceVars == << canvas, size >>
poolVars == << particles, pool, active, held, used >>
engineVars == << hostVars, particleEngine, inited, surfaceVars, loopVars, poolVars, lastOp >>
loadVars == << script, windowParticleEngine >>
emitterVars == << rippleEffect, confettiEngine, rainEngine, calls >>
formVars == << messageForm, emailSend >>
sectionVars == << appState, transitions, storage >>
appVars == << formVars, gift, piano, sectionVars >>
pageVars == << loadVars, emitterVars, appVars >>
rippleRest == << engineVars, loadVars, confettiEngine, rainEngine, appVars >>
confettiRest == << engineVars, loadVars, rippleEffect, rainEngine, appVars >>
rainRest == << engineVars, loadVars, rippleEffect, confettiEngine, appVars >>
formRest == << engineVars, loadVars, rippleEffect, confettiEngine, gift, piano,
              sectionVars >>
giftRest == << engineVars, loadVars, rippleEffect, rainEngine, calls, formVars, piano,
              sectionVars >>
sectionRest == << engineVars, loadVars, emitterVars, formVars, gift, piano >>
pianoRest == << engineVars, loadVars, emitterVars, formVars, gift, sectionVars >>

\* PARTICLE_CONFIG after Object.assign(PARTICLE_CONFIG, PARTICLE_CONFIG.mobile)
maxParticles == IF isMobile THEN MobileMaxParticles ELSE DesktopMaxParticles
configLifetime == IF isMobile THEN MobileLifetime ELSE DesktopLifetime

PoolState ==
  [particles |-> particles, pool |-> pool, active |-> active, held |-> held,
   used |-> used]

\* Object identities are names only.  Between operations the objects are
\* named by their first position in active followed by pool, so that two
\* states that differ by a renaming of the objects are one state.
Canon(st) ==
  LET o == st.active \o st.pool
      first == SelectSeq([k \in 1 .. Len(o) |-> k],
                         LAMBDA k : \A j \in 1 .. (k - 1) : o[j] # o[k])
      ren == [id \in DOMAIN st.particles |->
                CHOOSE n \in 1 .. Len(first) : o[first[n]] = id]
  IN  [particles |-> [n \in 1 .. Len(first) |-> st.particles[o[first[n]]]],
       pool |-> [k \in 1 .. Len(st.pool) |-> ren[st.pool[k]]],
       active |-> [k \in 1 .. Len(st.active) |-> ren[st.active[k]]],
       held |-> {ren[id] : id \in st.held},
       used |-> {ren[id] : id \in st.used}]

SetPool(st0) ==
  LET st == Canon(st0)
  IN  /\ particles' = st.particles
      /\ pool' = st.pool
      /\ active' = st.active
      /\ held' = st.held
      /\ used' = st.used

\* ParticlePool.getActiveCount()
getActiveCount == Len(active)

\* getStats() that reports the length of the free list
StatsCountsFreeList ==
  [activeParticles |-> Len(pool), maxParticles |-> maxParticles,
   poolSize |-> poolSize, fps |-> fpsState.fps, canvasSize |-> size]

\* ParticleEngine.getStats(): the object it returns
Stats ==
  [activeParticles |-> getActiveCount, maxParticles |-> maxParticles,
   poolSize |-> poolSize, fps |-> fpsState.fps, canvasSize |-> size]

\* no object returned
NoStats ==
  [activeParticles |-> 0, maxParticles |-> 0, poolSize |-> 0, fps |-> 0,
   canvasSize |-> [width |-> 0, height |-> 0]]

\* lastOp records the operation that produced the state: its name and
\* arguments (for a spawn call that passed its budget check), the length of
\* the live list before it, the number of recycled objects it spawned, the
\* particles it painted, whether it ended in an exception, the object it
\* returned (getStats), the particle objects as they were when painted, and
\* the calls an animate() made, in order.
Op(name) ==
  [op |-> name, x |-> 0, y |-> 0, count |-> 0, options |-> NoOptions,
   seed |-> 0, before |-> Len(active), recycled |-> 0, drawn |-> << >>,
   threw |-> FALSE, stats |-> NoStats, painted |-> << >>, steps |-> << >>]

SpawnOp(name, site, count, seed, st) ==
  [op |-> name, x |-> site.x, y |-> site.y, count |-> count,
   options |-> site.options, seed |-> seed, before |-> Len(active),
   recycled |-> Cardinality({k \in (Len(active) + 1) .. Len(st.active) :
                               st.active[k] \in used}),
   drawn |-> << >>, threw |-> FALSE, stats |-> NoStats, painted |-> << >>, steps |-> << >>]

Init ==
  /\ isMobile \in BOOLEAN
  /\ now = 0
  /\ hidden = FALSE
  /\ rafQueue = {}
  /\ particleEngine = FALSE
  /\ inited = FALSE
  /\ canvas = [attached |-> FALSE, width |-> 0, height |-> 0, scale |-> 1]
  /\ size = [width |-> Undefined, height |-> Undefined]
  /\ animationId = 0
  /\ lastTime = 0
  /\ fpsState = [fps |-> 0, frameCount |-> 0, fpsUpdateTime |-> 0]
  /\ particles = << >>
  /\ pool = << >>
  /\ active = << >>
  /\ held = {}
  /\ used = {}
  /\ lastOp = [op |-> "new", x |-> 0, y |-> 0, count |-> 0, options |-> NoOptions,
               seed |-> 0, before |-> 0, recycled |-> 0, drawn |-> << >>,
               threw |-> FALSE, stats |-> NoStats, painted |-> << >>, steps |-> << >>]
  /\ script = "none"
  /\ windowParticleEngine = FALSE
  /\ rippleEffect = [container |-> FALSE, ripples |-> << >>, parent |-> {},
                     timers |-> << >>]
  /\ confettiEngine = [particles |-> 0, orphans |-> 0]
  /\ rainEngine = [container |-> FALSE, isActive |-> FALSE, bursts |-> 0,
                   particles |-> 0, sparkles |-> 0, orphans |-> 0]
  /\ calls = 0
  /\ messageForm = [message |-> 0, name |-> 0,
                    isSubmitted |-> FALSE, isValid |-> FALSE, isSubmitting |-> FALSE,
                    submitCount |-> 0, emailSent |-> FALSE, disabled |-> FALSE,
                    submitBtnDisabled |-> FALSE, successTimers |-> FALSE,
                    shown |-> FALSE]
  /\ emailSend = [phase |-> "idle", retryCount |-> 0, attempts |-> 0,
                  delays |-> << >>]
  /\ gift = [isInitialized |-> FALSE, isOpened |-> FALSE, isAnimating |-> FALSE,
             countdown |-> countdownDuration, countdownInterval |-> FALSE,
             autoOpenTimer |-> FALSE, openTimers |-> << >>, resets |-> 0,
             opens |-> 0, allOpens |-> 0, confettiMade |-> 0,
             source |-> "none", returned |-> "none", flip |-> FALSE]
  /\ piano = [uniqueKeys |-> {}, isUnlocked |-> FALSE, suspended |-> 0,
              buttonDisabled |-> TRUE, unlocks |-> 0, skipped |-> FALSE,
              resets |-> 0]
  /\ appState = [currentSection |-> "intro", isTransitioning |-> FALSE,
                 canTransition |-> TRUE, screenLocked |-> FALSE]
  /\ transitions = [running |-> << >>, timers |-> 0,
                    caller |-> "none", returned |-> "none", flip |-> FALSE]
  /\ storage = << >>

\* requestAnimationFrame(): a request identity not pending in the host
NewRequest == CHOOSE n \in 1 .. (Cardinality(rafQueue) + 2) :
                 n \notin rafQueue /\ n # animationId

\* ParticleEngine.updateFPS(currentTime)
UpdateFPS(f, currentTime) ==
  LET n == f.frameCount + 1
      dt == currentTime - f.fpsUpdateTime
  IN  IF currentTime # Undefined /\ currentTime >= f.fpsUpdateTime + FpsWindowMs
      THEN [fps |-> (2 * n * 1000 + dt) \div (2 * dt),
            frameCount |-> 0, fpsUpdateTime |-> currentTime]
      ELSE [f EXCEPT !.frameCount = n]

\* the calls of animate(), in the order of its statements
AnimateSteps ==
  << "requestAnimationFrame", "updateFPS", "clearRect", "update", "draw" >>

\* animate() that paints before it updates
AnimateDrawsFirst(st, queue, currentTime, t, name) ==
  LET st1 == PoolUpdate(st, t, configLifetime)
      id == NewRequest
  IN  /\ animationId' = id
      /\ rafQueue' = queue \cup {id}
      /\ lastTime' = currentTime
      /\ fpsState' = UpdateFPS(fpsState, currentTime)
      /\ SetPool(st1)
      /\ lastOp' = [Op(name) EXCEPT !.drawn = PoolDraw(Canon(st)),
                                    !.painted = PoolPainted(Canon(st)),
                                    !.steps = AnimateSteps]

\* ParticleEngine.animate(currentTime) on pool state st at clock t, the
\* frame requests being queue: the next request, lastTime, the FPS counter,
\* then pool.update and pool.draw
Animate(st, queue, currentTime, t, name) ==
  LET st1 == PoolUpdate(st, t, configLifetime)
      id == NewRequest
  IN  /\ animationId' = id
      /\ rafQueue' = queue \cup {id}
      /\ lastTime' = currentTime
      /\ fpsState' = UpdateFPS(fpsState, currentTime)
      /\ SetPool(st1)
      /\ lastOp' = [Op(name) EXCEPT !.drawn = PoolDraw(Canon(st1)),
                                    !.painted = PoolPainted(Canon(st1)),
                                    !.steps = AnimateSteps]

\* ParticleEngine.resize() for the viewport vp; a detached canvas has an
\* empty bounding rectangle
DoResize(vp, attached) ==
  LET w == IF attached THEN vp.w ELSE 0
      h == IF attached THEN vp.h ELSE 0
  IN  /\ canvas' = [attached |-> attached, width |-> w * vp.dpr,
                    height |-> h * vp.dpr, scale |-> vp.dpr]
      /\ size' = [width |-> w, height |-> h]

\* the body of initParticles(): new ParticleEngine().init(), which ends in
\* start()
RunInit(vp) ==
  /\ ~particleEngine
  /\ particleEngine' = TRUE
  /\ inited' = TRUE
  /\ DoResize(vp, TRUE)
  /\ Animate(PoolNew(poolSize, configLifetime), rafQueue, Undefined, now, "init")
  /\ UNCHANGED hostVars

\* initParticles() called on a page whose scripts are already evaluated
InitParticles(vp) ==
  /\ RunInit(vp)
  /\ UNCHANGED pageVars

\* initParticles() when canvas.getContext('2d') returns null: the engine is
\* assigned, the canvas is attached, resize() sizes the canvas and then
\* throws at this.ctx.scale; nothing after it in init() runs
RunInitNoContext(vp) ==
  /\ ~particleEngine
  /\ particleEngine' = TRUE
  /\ canvas' = [attached |-> TRUE, width |-> vp.w * vp.dpr,
                height |-> vp.h * vp.dpr, scale |-> 1]
  /\ lastOp' = [Op("init") EXCEPT !.threw = TRUE]
  /\ UNCHANGED << hostVars, inited, size, loopVars, poolVars >>

InitParticlesNoContext(vp) ==
  /\ RunInitNoContext(vp)
  /\ UNCHANGED pageVars

\* animate() that throws before it requests the next frame
AnimateNoContextThrowsFirst(queue, currentTime, name) ==
  /\ rafQueue' = queue
  /\ lastOp' = [Op(name) EXCEPT !.threw = TRUE]
  /\ UNCHANGED << animationId, lastTime, fpsState, poolVars >>

\* ParticleEngine.animate(currentTime) of an engine with no context and no
\* pool: it throws at this.ctx.clearRect, after the next request, lastTime
\* and the FPS counter
AnimateNoContext(queue, currentTime, name) ==
  LET id == NewRequest
  IN  /\ animationId' = id
      /\ rafQueue' = queue \cup {id}
      /\ lastTime' = currentTime
      /\ fpsState' = UpdateFPS(fpsState, currentTime)
      /\ lastOp' = [Op(name) EXCEPT !.threw = TRUE,
                                    !.steps = SubSeq(AnimateSteps, 1, 3)]
      /\ UNCHANGED poolVars

\* the host runs the pending frame callback, animate(time), in a run of the
\* clock up to limit
Frame(limit) ==
  /\ particleEngine
  /\ ~hidden
  /\ now + FrameMs <= limit
  /\ \E id \in rafQueue :
       /\ now' = now + FrameMs
       /\ IF inited
          THEN Animate(PoolState, rafQueue \ {id}, now + FrameMs, now + FrameMs,
                       "animate")
          ELSE AnimateNoContext(rafQueue \ {id}, now + FrameMs, "animate")
  /\ UNCHANGED << isMobile, pageVars, hidden, particleEngine, inited, surfaceVars >>

FrameTick == Frame(MaxTime)

\* time passes with no frame
TickUntil(limit) ==
  /\ now + FrameMs <= limit
  /\ now' = now + FrameMs
  /\ lastOp' = Op("tick")
  /\ UNCHANGED << isMobile, pageVars, hidden, particleEngine, inited, surfaceVars, loopVars, poolVars >>

Tick == TickUntil(MaxTime)

\* pause() that forgets the request it should cancel
PauseWithoutCancel ==
  /\ animationId' = 0
  /\ UNCHANGED rafQueue

\* ParticleEngine.pause()
Pause ==
  IF animationId # 0
  THEN /\ rafQueue' = rafQueue \ {animationId}
       /\ animationId' = 0
  ELSE UNCHANGED << rafQueue, animationId >>

\* resume() without its test of animationId
ResumeUnguarded ==
  IF inited
  THEN Animate(PoolState, rafQueue, Undefined, now, "resume")
  ELSE AnimateNoContext(rafQueue, Undefined, "resume")

\* ParticleEngine.resume(): lastTime = performance.now(), then animate()
\* with no argument, which stores undefined in lastTime
Resume ==
  IF animationId = 0
  THEN IF inited
       THEN Animate(PoolState, rafQueue, Undefined, now, "resume")
       ELSE AnimateNoContext(rafQueue, Undefined, "resume")
  ELSE /\ lastOp' = Op("resume")
       /\ UNCHANGED << loopVars, poolVars >>

\* a listener that resumes when the page is shown and does nothing when it
\* is hidden
VisibilityChangeNeverPauses ==
  /\ inited
  /\ hidden' = ~hidden
  /\ IF hidden'
     THEN /\ lastOp' = Op("pause")
          /\ UNCHANGED << loopVars, poolVars >>
     ELSE /\ animationId = 0 => fpsState.frameCount < MaxFrameCount
          /\ Resume
  /\ UNCHANGED << isMobile, pageVars, now, particleEngine, inited, surfaceVars >>

\* the visibilitychange listener: pause() when hidden, else resume()
VisibilityChange ==
  /\ inited
  /\ hidden' = ~hidden
  /\ IF hidden'
     THEN /\ Pause
          /\ lastOp' = Op("pause")
          /\ UNCHANGED << lastTime, fpsState, poolVars >>
     ELSE /\ animationId = 0 => fpsState.frameCount < MaxFrameCount
          /\ Resume
  /\ UNCHANGED << isMobile, pageVars, now, particleEngine, inited, surfaceVars >>

\* a caller's particleEngine.pause()
PauseCall ==
  /\ particleEngine
  /\ Pause
  /\ lastOp' = Op("pause")
  /\ UNCHANGED << hostVars, pageVars, particleEngine, inited, surfaceVars, lastTime,
                  fpsState, poolVars >>

\* a caller's particleEngine.resume()
ResumeCall ==
  /\ particleEngine
  /\ animationId = 0 => fpsState.frameCount < MaxFrameCount
  /\ Resume
  /\ UNCHANGED << hostVars, pageVars, particleEngine, inited, surfaceVars >>

\* a caller's particleEngine.getStats(); with no pool it throws
GetStats ==
  /\ particleEngine
  /\ lastOp' = IF inited THEN [Op("getStats") EXCEPT !.stats = Stats]
                ELSE [Op("getStats") EXCEPT !.threw = TRUE]
  /\ UNCHANGED << hostVars, pageVars, particleEngine, inited, surfaceVars, loopVars,
                  poolVars >>

\* the resize listener
Resize(vp) ==
  /\ inited
  /\ DoResize(vp, canvas.attached)
  /\ lastOp' = Op("resize")
  /\ UNCHANGED << hostVars, pageVars, particleEngine, inited, loopVars, poolVars >>

\* the options each pattern passes to Particle.spawn for particle i of n:
\* { <pattern defaults>, ...options }
\* burst angles spaced over count + 1
BurstOptionsWrongSpacing(options, seed, i, n) ==
  Merge([angle |-> (TwoPi * i) \div (n + 1)], options)

BurstOptions(options, seed, i, n) ==
  Merge([angle |-> (TwoPi * i) \div n], options)

ExplosionOptions(options, seed, i, n) ==
  Merge([angle |-> (Random(seed, i, 0) * TwoPi) \div Scale,
         speed |-> Random(seed, i, 1) * 6 + 2 * Scale], options)

\* a fountain whose draw is not centred: angles from -pi/2 to -pi/2 + spread
FountainOptionsOneSided(options, seed, i, n) ==
  Merge([angle |-> (0 - HalfPi) + (Random(seed, i, 0) * FountainSpread) \div Scale,
         speed |-> Random(seed, i, 1) * 5 + 3 * Scale], options)

FountainOptions(options, seed, i, n) ==
  Merge([angle |-> (0 - HalfPi) +
                   ((Random(seed, i, 0) - Scale \div 2) * FountainSpread) \div Scale,
         speed |-> Random(seed, i, 1) * 5 + 3 * Scale], options)

\* a trail whose own values are spread after the caller's options
TrailOptionsDefaultsWin(options, seed, i, n) ==
  Merge(options,
        [angle |-> (Random(seed, i, 0) * TwoPi) \div Scale,
         speed |-> Random(seed, i, 1) * 2,
         size |-> Random(seed, i, 8) * 4 + 2 * Scale,
         lifetime |-> TrailLifetime])

TrailOptions(options, seed, i, n) ==
  Merge([angle |-> (Random(seed, i, 0) * TwoPi) \div Scale,
         speed |-> Random(seed, i, 1) * 2,
         size |-> Random(seed, i, 8) * 4 + 2 * Scale,
         lifetime |-> TrailLifetime], options)

PatternOptions(name, options, seed, i, n) ==
  CASE name = "spawnBurst" -> BurstOptions(options, seed, i, n)
    [] name = "spawnExplosion" -> ExplosionOptions(options, seed, i, n)
    [] name = "spawnFountain" -> FountainOptions(options, seed, i, n)
    [] name = "spawnTrail" -> TrailOptions(options, seed, i, n)

\* for (let i = 0; i < count; i++) { pool.get().spawn(x, y, {...}) }
RECURSIVE SpawnLoop(_, _, _, _, _, _, _, _)
SpawnLoop(st, name, site, seed, i, n, t, cfgLifetime) ==
  IF i >= n THEN st
  ELSE LET st1 == PoolGet(st, cfgLifetime)
           id == st1.active[Len(st1.active)]
           p == ParticleSpawn(st1.particles[id], site.x, site.y,
                              PatternOptions(name, site.options, seed, i, n),
                              seed, i, t, cfgLifetime)
       IN  SpawnLoop([st1 EXCEPT !.particles[id] = p, !.used = st1.used \cup {id}],
                     name, site, seed, i + 1, n, t, cfgLifetime)

\* a budget check that lets a call through at exactly the limit
OverBudgetStrict(count, limit) == count > limit

\* the budget check that opens the four spawn operations
OverBudget(count, limit) == count >= limit

\* the count each operation spawns on this device
BurstCountRoundsDown(count, mobile) ==
  IF mobile THEN (count * SpawnRatePct) \div 100 ELSE count
BurstCount(count, mobile) == IF mobile THEN CeilRate(count) ELSE count
ExplosionCount(count, mobile) == IF mobile THEN CeilRate(count) ELSE count
FountainCount(count, mobile) == IF mobile THEN CeilRate(count) ELSE count
TrailCount(count, mobile) == count

DoSpawn(name, site, count, seed, n) ==
  /\ particleEngine
  /\ IF ~inited
     THEN /\ UNCHANGED poolVars
          /\ lastOp' = [Op(name) EXCEPT !.threw = TRUE]
     ELSE IF OverBudget(getActiveCount, maxParticles)
     THEN /\ UNCHANGED poolVars
          /\ lastOp' = Op(name)
     ELSE LET st == SpawnLoop(PoolState, name, site, seed, 0, n, now, configLifetime)
          IN  /\ SetPool(st)
              /\ lastOp' = SpawnOp(name, site, count, seed, st)
  /\ UNCHANGED << hostVars, particleEngine, inited, surfaceVars, loopVars >>

\* a spawn operation called on its own
Spawn(name, site, count, seed, n) ==
  /\ DoSpawn(name, site, count, seed, n)
  /\ UNCHANGED pageVars

\* ParticleEngine.spawnBurst(x, y, count, options)
SpawnBurst(site, count, seed) ==
  Spawn("spawnBurst", site, count, seed, BurstCount(count, isMobile))

\* ParticleEngine.spawnExplosion(x, y, count, options)
SpawnExplosion(site, count, seed) ==
  Spawn("spawnExplosion", site, count, seed, ExplosionCount(count, isMobile))

\* ParticleEngine.spawnFountain(x, y, count, options)
SpawnFountain(site, count, seed) ==
  Spawn("spawnFountain", site, count, seed, FountainCount(count, isMobile))

\* ParticleEngine.spawnTrail(x, y, count, options)
SpawnTrail(site, count, seed) ==
  Spawn("spawnTrail", site, count, seed, TrailCount(count, isMobile))

\* ParticleEngine.clear()
Clear ==
  /\ inited
  /\ SetPool(PoolClear(PoolState, configLifetime))
  /\ lastOp' = Op("clear")
  /\ UNCHANGED << hostVars, pageVars, particleEngine, inited, surfaceVars, loopVars >>

\* ParticleEngine.destroy(): pause(), canvas.remove(), pool.clear()
Destroy ==
  /\ inited
  /\ Pause
  /\ canvas' = [canvas EXCEPT !.attached = FALSE]
  /\ SetPool(PoolClear(PoolState, configLifetime))
  /\ lastOp' = Op("destroy")
  /\ UNCHANGED << hostVars, pageVars, particleEngine, inited, size, lastTime, fpsState >>

\* ------------------------------------------------------- page load order
\* The count and options of a piano key press (PIANO_CONFIG.particles), the
\* count scaled to the budget of the model.
KeySite == [x |-> 300, y |-> 200,
            options |-> [color |-> "#4A90E2", size |-> 5 * Scale, lifetime |-> 1500]]

\* unlockPiano: the centre of the window, options {speed: 5}
UnlockSite == [x |-> 400, y |-> 300, options |-> [speed |-> 5 * Scale]]

\* particles.js evaluated while document.readyState is 'loading': the
\* DOMContentLoaded listener is registered, then window.particleEngine takes
\* the value the variable particleEngine has at that moment
EvaluateScriptLoading ==
  /\ script = "none"
  /\ script' = "listening"
  /\ windowParticleEngine' = particleEngine
  /\ lastOp' = Op("script")
  /\ UNCHANGED << hostVars, particleEngine, inited, surfaceVars, loopVars, poolVars,
                  emitterVars, appVars >>

\* particles.js evaluated after the document is ready: initParticles() runs
\* first; if init() throws, the evaluation of the script ends there and the
\* exports below it are never assigned
EvaluateScriptReady(vp) ==
  /\ script = "none"
  /\ \/ /\ RunInit(vp)
        /\ script' = "evaluated"
        /\ windowParticleEngine' = particleEngine'
     \/ /\ RunInitNoContext(vp)
        /\ script' = "aborted"
        /\ UNCHANGED windowParticleEngine
  /\ UNCHANGED << emitterVars, appVars >>

\* DOMContentLoaded fires: the listener initParticles runs; nothing assigns
\* window.particleEngine again
DOMContentLoaded(vp) ==
  /\ script = "listening"
  /\ script' = "evaluated"
  /\ RunInit(vp) \/ RunInitNoContext(vp)
  /\ UNCHANGED << windowParticleEngine, emitterVars, appVars >>

\* window.spawnParticles(x, y, count, options): tests the variable
\* particleEngine, not the property of window
SpawnParticles ==
  /\ script \in {"listening", "evaluated"}
  /\ IF particleEngine
     THEN SpawnBurst(DefaultSite, MaxCount, 0)
     ELSE /\ lastOp' = Op("spawnParticles")
          /\ UNCHANGED << hostVars, pageVars, particleEngine, inited, surfaceVars,
                          loopVars, poolVars >>

\* ------------------------------------------------------ emitter calls
\* one more call of an emitter's creating method
CountCall == IF calls < MaxCalls THEN calls + 1 ELSE calls

\* ------------------------------------------------------- ripple emitter
\* A ripple element is named by a number; rippleEffect.ripples is
\* this.ripples, rippleEffect.parent the elements that have a parentElement,
\* rippleEffect.timers the pending removal timers in the order they were
\* set. All timers have the same delay, so they fire in that order.
NewRipple(re) ==
  CHOOSE n \in 1 .. (Len(re.timers) + 1) :
    \A k \in 1 .. Len(re.timers) : re.timers[k] # n

\* createRipple that evicts only above the cap
RippleCreateLateCap(re) ==
  LET evict == Len(re.ripples) > maxRipples
      kept == IF evict THEN Tail(re.ripples) ELSE re.ripples
      par == IF evict THEN re.parent \ {Head(re.ripples)} ELSE re.parent
      id == NewRipple(re)
  IN  [re EXCEPT !.ripples = Append(kept, id), !.parent = par \cup {id},
                 !.timers = Append(re.timers, id)]

\* RippleEffect.createRipple past its container test: at the cap the first
\* tracked ripple is shifted out and removed, then the new one is appended,
\* tracked, and given a removal timer
RippleCreate(re) ==
  LET evict == Len(re.ripples) >= maxRipples
      kept == IF evict THEN Tail(re.ripples) ELSE re.ripples
      par == IF evict THEN re.parent \ {Head(re.ripples)} ELSE re.parent
      id == NewRipple(re)
  IN  [re EXCEPT !.ripples = Append(kept, id), !.parent = par \cup {id},
                 !.timers = Append(re.timers, id)]

\* RippleEffect.init(), ripples enabled
RippleInit ==
  /\ ~rippleEffect.container
  /\ rippleEffect' = [rippleEffect EXCEPT !.container = TRUE]
  /\ UNCHANGED rippleRest
  /\ UNCHANGED calls

\* RippleEffect.createRipple(x, y, color)
CreateRipple ==
  /\ Len(rippleEffect.timers) < maxRipples + ExtraRipples
  /\ rippleEffect' = IF rippleEffect.container THEN RippleCreate(rippleEffect)
                                                ELSE rippleEffect
  /\ UNCHANGED rippleRest
  /\ calls' = CountCall

\* a removal timer that shifts the list instead of filtering its own ripple
RippleTimeoutShifts ==
  /\ rippleEffect.timers # << >>
  /\ LET id == Head(rippleEffect.timers)
     IN  rippleEffect' =
           [rippleEffect EXCEPT !.ripples = IF @ = << >> THEN @ ELSE Tail(@),
                                !.parent = @ \ {id},
                                !.timers = Tail(@)]
  /\ UNCHANGED rippleRest
  /\ UNCHANGED calls

\* the removal timer of the oldest pending ripple fires: ripple.remove() and
\* this.ripples = this.ripples.filter(r => r !== ripple)
RippleTimeout ==
  /\ rippleEffect.timers # << >>
  /\ LET id == Head(rippleEffect.timers)
     IN  rippleEffect' =
           [rippleEffect EXCEPT !.ripples = SelectSeq(@, LAMBDA r : r # id),
                                !.parent = @ \ {id},
                                !.timers = Tail(@)]
  /\ UNCHANGED rippleRest
  /\ UNCHANGED calls

\* RippleEffect.destroy(): the container leaves the document, with the
\* ripples in it, and the list is emptied; the container field stays set
RippleDestroy ==
  /\ rippleEffect.container
  /\ rippleEffect' = [rippleEffect EXCEPT !.ripples = << >>]
  /\ UNCHANGED rippleRest
  /\ UNCHANGED calls

\* ------------------------------------------------------ confetti emitter
\* confettiEngine.particles is the length of this.particles, each entry an
\* attached element with a pending cleanup timer; confettiEngine.orphans
\* counts the pending timers of elements that clear() already removed.
\* ConfettiEngine.createConfetti(): confettiCount elements, no test of how
\* many are live
CreateConfetti ==
  /\ confettiEngine.particles + confettiEngine.orphans + confettiCount
       <= confettiCount * MaxConfettiCalls
  /\ confettiEngine' = [confettiEngine EXCEPT !.particles = @ + confettiCount]
  /\ UNCHANGED confettiRest
  /\ calls' = CountCall

\* the cleanup timer of a live confetti fires
ConfettiCleanup ==
  /\ confettiEngine.particles > 0
  /\ confettiEngine' = [confettiEngine EXCEPT !.particles = @ - 1]
  /\ UNCHANGED confettiRest
  /\ UNCHANGED calls

\* the cleanup timer of a confetti that clear() removed fires: no effect
ConfettiOrphanCleanup ==
  /\ confettiEngine.orphans > 0
  /\ confettiEngine' = [confettiEngine EXCEPT !.orphans = @ - 1]
  /\ UNCHANGED confettiRest
  /\ UNCHANGED calls

\* ConfettiEngine.clear()
ConfettiClear ==
  /\ confettiEngine.particles > 0
  /\ confettiEngine' = [particles |-> 0,
                        orphans |-> confettiEngine.orphans + confettiEngine.particles]
  /\ UNCHANGED confettiRest
  /\ UNCHANGED calls

\* ---------------------------------------------------------- rain emitter
\* rainEngine.bursts counts the pending burst timers, rainEngine.particles
\* the length of this.particles (chiikawa and emoji particles, each attached
\* and with a pending removal timer), rainEngine.sparkles the attached
\* sparkles (not tracked, each with a removal timer), rainEngine.orphans the
\* pending removal timers of elements that clear() already detached.
RainRoom ==
  rainEngine.particles + rainEngine.sparkles + rainEngine.orphans
    + RainPerBurst + SparklesPerBurst
    <= (RainPerBurst + SparklesPerBurst) * MaxRainBursts

\* the closure burst() once isActive was found true: the particles, the
\* sparkles, and setTimeout(burst, rainBurstInterval)
Burst(re) ==
  [re EXCEPT !.particles = @ + RainPerBurst, !.sparkles = @ + SparklesPerBurst,
             !.bursts = @ + 1]

\* RainEngine.start(): init() if needed, isActive = true, burst(); no test of
\* isActive or of a pending burst timer
RainStart ==
  /\ rainEngine.bursts < MaxBurstTimers
  /\ RainRoom
  /\ rainEngine' = Burst([rainEngine EXCEPT !.container = TRUE, !.isActive = TRUE])
  /\ calls' = CountCall
  /\ UNCHANGED rainRest

\* a burst timer fires: burst() returns at once if the rain was stopped
RainBurst ==
  /\ rainEngine.bursts > 0
  /\ rainEngine.isActive => RainRoom
  /\ rainEngine' = IF rainEngine.isActive
                   THEN Burst([rainEngine EXCEPT !.bursts = @ - 1])
                   ELSE [rainEngine EXCEPT !.bursts = @ - 1]
  /\ calls' = IF rainEngine.isActive THEN CountCall ELSE calls
  /\ UNCHANGED rainRest

\* RainEngine.stop()
RainStop ==
  /\ rainEngine.isActive
  /\ rainEngine' = [rainEngine EXCEPT !.isActive = FALSE]
  /\ UNCHANGED << rainRest, calls >>

\* the removal timer of a tracked rain particle fires
RainParticleTimeout ==
  /\ rainEngine.particles > 0
  /\ rainEngine' = [rainEngine EXCEPT !.particles = @ - 1]
  /\ UNCHANGED << rainRest, calls >>

\* the removal timer of an attached sparkle fires
RainSparkleTimeout ==
  /\ rainEngine.sparkles > 0
  /\ rainEngine' = [rainEngine EXCEPT !.sparkles = @ - 1]
  /\ UNCHANGED << rainRest, calls >>

\* the removal timer of an element that clear() detached fires: no effect
RainOrphanTimeout ==
  /\ rainEngine.orphans > 0
  /\ rainEngine' = [rainEngine EXCEPT !.orphans = @ - 1]
  /\ UNCHANGED << rainRest, calls >>

\* RainEngine.clear(): container.innerHTML = '' and particles = []
RainClear ==
  /\ rainEngine.container
  /\ rainEngine.particles + rainEngine.sparkles > 0
  /\ rainEngine' = [rainEngine EXCEPT !.particles = 0, !.sparkles = 0,
                                      !.orphans = @ + rainEngine.particles
                                                    + rainEngine.sparkles]
  /\ UNCHANGED << rainRest, calls >>

\* ---------------------------------------------------------- message form
\* the retry test of send() that allows one attempt more
CanRetryInclusive(retryCount) == retryCount <= maxRetries

\* EmailService.send: if (retryCount < MESSAGE_CONFIG.maxRetries)
CanRetry(retryCount) == retryCount < maxRetries

\* what is typed in the form: the lengths of the message and of the name,
\* neither with surrounding blanks or a run of one character; no email
MessageLengths == {0, minChars - 1, minChars, maxChars}
NameLengths == {0, 1, 2}

\* FormValidator.validate(message, name, '')
Validate(message, name) ==
  /\ message # 0 /\ message >= minChars /\ message <= maxChars
  /\ name = 0 \/ name >= 2

\* MessageFormController.validateMessage() on an input or blur event, then
\* updateSubmitButton()
ValidateMessage(message, name) ==
  /\ ~messageForm.disabled
  /\ messageForm' = [messageForm EXCEPT
                       !.message = message, !.name = name,
                       !.isValid = Validate(message, name),
                       !.submitBtnDisabled = ~Validate(message, name)
                                               \/ messageForm.isSubmitting]
  /\ UNCHANGED << emailSend, rainEngine, calls, formRest >>

\* how submitForm() is reached: the form's submit event (which needs an
\* enabled submit button), Ctrl+Enter in the message field, or a direct call
SubmitTriggers == {"submit", "ctrlEnter", "call"}

\* MessageFormController.submitForm() up to its await of emailService.send
SubmitForm(trigger) ==
  /\ trigger = "submit" => ~messageForm.submitBtnDisabled
  /\ trigger = "ctrlEnter" => ~messageForm.disabled
  /\ messageForm.submitCount < MaxSubmits
  /\ IF messageForm.isSubmitted \/ ~messageForm.isValid
     THEN UNCHANGED formVars
     ELSE /\ messageForm' = [messageForm EXCEPT
                               !.isSubmitted = TRUE, !.isSubmitting = TRUE,
                               !.submitCount = @ + 1, !.disabled = TRUE,
                               !.submitBtnDisabled = TRUE]
          /\ emailSend' = [phase |-> "attempt", retryCount |-> 0, attempts |-> 1,
                           delays |-> << >>]
  /\ UNCHANGED << rainEngine, calls, formRest >>

\* sendEmailJS resolves: send returns { success: true }, and submitForm sets
\* emailSent and the two 500 ms timers
AttemptSucceeds ==
  /\ emailSend.phase = "attempt"
  /\ emailSend' = [emailSend EXCEPT !.phase = "done"]
  /\ messageForm' = [messageForm EXCEPT !.emailSent = TRUE, !.successTimers = TRUE]
  /\ UNCHANGED << rainEngine, calls, formRest >>

\* sendEmailJS rejects: send waits 1000 * (retryCount + 1) ms for a retry,
\* or rethrows, and then submitForm's catch clears isSubmitted and enables
\* the controls of the form
AttemptFails ==
  /\ emailSend.phase = "attempt"
  /\ IF CanRetry(emailSend.retryCount)
     THEN /\ emailSend' = [emailSend EXCEPT
                             !.phase = "wait",
                             !.delays = Append(@, 1000 * (emailSend.retryCount + 1))]
          /\ UNCHANGED messageForm
     ELSE /\ emailSend' = [emailSend EXCEPT !.phase = "failed"]
          /\ messageForm' = [messageForm EXCEPT
                               !.isSubmitted = FALSE, !.disabled = FALSE,
                               !.submitBtnDisabled = FALSE]
  /\ UNCHANGED << rainEngine, calls, formRest >>

\* the retry delay is over: this.send(formData, retryCount + 1)
RetryTimer ==
  /\ emailSend.phase = "wait"
  /\ emailSend' = [emailSend EXCEPT !.phase = "attempt", !.retryCount = @ + 1,
                                    !.attempts = @ + 1]
  /\ UNCHANGED << messageForm, rainEngine, calls, formRest >>

\* the two timers of a successful submit fire: rainEngine.start() and
\* showSuccess()
SuccessTimers ==
  /\ messageForm.successTimers
  /\ messageForm' = [messageForm EXCEPT !.successTimers = FALSE, !.shown = TRUE]
  /\ rainEngine' = Burst([rainEngine EXCEPT !.container = TRUE, !.isActive = TRUE])
  /\ calls' = CountCall
  /\ UNCHANGED << emailSend, formRest >>

\* ------------------------------------------------------- gift controller
\* gift.openTimers holds, for each open sequence whose timers are not all
\* fired, how many of its three timers are left (confetti at 300 ms, message
\* at 700 ms, next button and isAnimating = false at 1000 ms), oldest first.
\* gift.opens counts the open sequences since the last reset, gift.allOpens
\* those of the whole run, gift.confettiMade the createConfetti() calls the
\* open timers made; gift.source and gift.returned describe the last call of
\* openGift, and gift.flip changes at every call.
\* a guard of openGift that looks at isAnimating only
AlreadyOpenAnimatingOnly(g) == g.isAnimating

\* openGift: if (isOpened || isAnimating) return false
AlreadyOpen(g) == g.isOpened \/ g.isAnimating

\* CountdownTimer.stop(): the interval is cleared, the auto-open timeout is
\* not
CountdownStop(g) == [g EXCEPT !.countdownInterval = FALSE]

\* GiftController.init(): listeners, countdownTimer.start()
GiftInit ==
  /\ ~gift.isInitialized
  /\ gift' = [gift EXCEPT !.isInitialized = TRUE, !.countdown = countdownDuration,
                          !.countdownInterval = TRUE, !.autoOpenTimer = TRUE]
  /\ UNCHANGED << confettiEngine, giftRest >>

\* GiftController.openGift(source)
OpenGift(g, source) ==
  IF AlreadyOpen(g)
  THEN [g EXCEPT !.source = source, !.returned = "false", !.flip = ~@]
  ELSE [CountdownStop(g) EXCEPT !.isAnimating = TRUE, !.isOpened = TRUE,
                                !.openTimers = Append(@, 3),
                                !.opens = @ + 1, !.allOpens = @ + 1,
                                !.source = source, !.returned = "true",
                                !.flip = ~@]

\* the listeners that call openGift directly
DirectSources ==
  {"gift-box-click", "gift-box-touch", "gift-box-keyboard", "button-click",
   "button-keyboard"}

\* the document listeners, which test isOpened and isAnimating themselves
GlobalSources == {"global-keyboard", "screen-click"}

\* a click, touch or key on the gift box or the open button
GiftTrigger(source) ==
  /\ gift.isInitialized
  /\ gift' = OpenGift(gift, source)
  /\ UNCHANGED << confettiEngine, giftRest >>

\* a click or key that reaches the document listeners
GlobalTrigger(source) ==
  /\ gift.isInitialized
  /\ ~gift.isOpened /\ ~gift.isAnimating
  /\ gift' = OpenGift(gift, source)
  /\ UNCHANGED << confettiEngine, giftRest >>

\* the countdown interval fires: updateCountdown(), and onComplete() at 0
UpdateCountdown ==
  /\ gift.countdownInterval
  /\ LET g == [gift EXCEPT !.countdown = @ - 1]
     IN  gift' = IF g.countdown <= 0
                 THEN OpenGift([g EXCEPT !.countdownInterval = FALSE], "auto-timer")
                 ELSE g
  /\ UNCHANGED << confettiEngine, giftRest >>

\* the auto-open timeout fires: onComplete()
AutoOpenTimer ==
  /\ gift.autoOpenTimer
  /\ gift' = OpenGift([gift EXCEPT !.autoOpenTimer = FALSE], "auto-timer")
  /\ UNCHANGED << confettiEngine, giftRest >>

\* the next timer of the k-th pending open sequence fires; an older sequence
\* is always further along than a newer one
OpenTimer(k) ==
  /\ k \in 1 .. Len(gift.openTimers)
  /\ \A j \in 1 .. (k - 1) : gift.openTimers[j] < gift.openTimers[k]
  /\ LET left == gift.openTimers[k]
         rest == IF left = 1
                 THEN SelectSeq([j \in 1 .. Len(gift.openTimers) |->
                                   IF j = k THEN 0 ELSE gift.openTimers[j]],
                                LAMBDA n : n > 0)
                 ELSE [gift.openTimers EXCEPT ![k] = left - 1]
     IN  /\ gift' = [gift EXCEPT
                       !.openTimers = rest,
                       !.confettiMade = IF left = 3 THEN @ + 1 ELSE @,
                       !.isAnimating = IF left = 1 THEN FALSE ELSE @]
         /\ confettiEngine' =
              IF left = 3
              THEN [confettiEngine EXCEPT !.particles = @ + confettiCount]
              ELSE confettiEngine
  /\ UNCHANGED giftRest

\* GiftController.reset(): countdownTimer.stop(), confettiEngine.clear(),
\* stateManager.reset(); the timers of an open sequence stay pending
GiftReset ==
  /\ gift.isInitialized
  /\ gift.resets < MaxResets
  /\ gift' = [gift EXCEPT !.isOpened = FALSE, !.isAnimating = FALSE,
                          !.countdown = countdownDuration,
                          !.countdownInterval = FALSE, !.autoOpenTimer = FALSE,
                          !.resets = @ + 1, !.opens = 0,
                          !.source = "none", !.returned = "none"]
  /\ confettiEngine' = [particles |-> 0,
                        orphans |-> confettiEngine.orphans + confettiEngine.particles]
  /\ UNCHANGED giftRest

\* ------------------------------------------------- section transitions
\* SECTION_ORDER
SECTION_ORDER == << "intro", "piano", "gift", "message" >>
Sections == { SECTION_ORDER[i] : i \in 1 .. Len(SECTION_ORDER) }
\* the arguments given to transitionToSection: the sections, and a name
\* that is none of them
SectionNames == Sections \cup {"elsewhere"}
\* transitionToSection: the test made before the flags are set
TransitionBlocked(st) == ~st.canTransition \/ st.isTransitioning

\* TransitionManager.transitionToSection(next) up to its first await, found
\* being whether the document has the next section's element: an invalid
\* name or a blocked call returns false; the flags are set; a missing
\* element throws into the catch block, which sets the flags back and
\* returns false; otherwise the fade-out begins
StartTransition(caller, next, found) ==
  LET call == [transitions EXCEPT !.caller = caller, !.flip = ~@]
  IN  IF next \notin Sections \/ TransitionBlocked(appState)
      THEN /\ transitions' = [call EXCEPT !.returned = "false"]
           /\ UNCHANGED appState
      ELSE IF ~found
      THEN /\ appState' = [appState EXCEPT !.isTransitioning = FALSE,
                                           !.canTransition = TRUE,
                                           !.screenLocked = FALSE]
           /\ transitions' = [call EXCEPT !.returned = "false"]
      ELSE /\ Len(transitions.running) + transitions.timers < MaxRunning
           /\ appState' = [appState EXCEPT !.isTransitioning = TRUE,
                                           !.canTransition = FALSE,
                                           !.screenLocked = TRUE]
           /\ transitions' =
                [call EXCEPT !.returned = "pending",
                             !.running = Append(@,
                               [to |-> next, stage |-> "out"])]

\* window.transitionToSection(section), debugApp.transitionTo(section); the
\* gift's next button and goToNextSection() and goToPreviousSection() are
\* such calls with a section of their own
TransitionToSection(next, found) ==
  /\ StartTransition("window", next, found)
  /\ UNCHANGED << storage, sectionRest >>

\* IntroButtonHandler.handleClick(), from the intro button or, while the
\* intro section is the current one, from Enter or Space
HandleClick(found) ==
  /\ appState.currentSection = "intro"
  /\ IF TransitionBlocked(appState)
     THEN UNCHANGED << appState, transitions >>
     ELSE StartTransition("intro-button", "piano", found)
  /\ UNCHANGED << storage, sectionRest >>

\* the promise of animateOut resolves: the current element is hidden, the
\* next one shown, and the fade-in begins
AnimateOutDone(i) ==
  /\ i \in 1 .. Len(transitions.running)
  /\ transitions.running[i].stage = "out"
  /\ transitions' = [transitions EXCEPT !.running[i].stage = "in"]
  /\ UNCHANGED << appState, storage, sectionRest >>

\* the promise of animateIn resolves: currentSection and the flags are
\* set, the 200 ms timer is set, and the promise resolves to true (the init
\* function initializeSection calls constructs the section's controller,
\* whose state is modelled from there on; visitedSections is left out)
AnimateInDone(i) ==
  /\ i \in 1 .. Len(transitions.running)
  /\ transitions.running[i].stage = "in"
  /\ LET r == transitions.running[i]
     IN  /\ appState' = [appState EXCEPT !.currentSection = r.to,
                                         !.isTransitioning = FALSE,
                                         !.screenLocked = FALSE]
         /\ transitions' =
              [transitions EXCEPT
                 !.running = SubSeq(@, 1, i - 1) \o SubSeq(@, i + 1, Len(@)),
                 !.timers = @ + 1]
  /\ UNCHANGED << storage, sectionRest >>

\* the 200 ms timer set when a transition completes
CanTransitionTimer ==
  /\ transitions.timers > 0
  /\ appState' = [appState EXCEPT !.canTransition = TRUE]
  /\ transitions' = [transitions EXCEPT !.timers = @ - 1]
  /\ UNCHANGED << storage, sectionRest >>

\* AppStateManager.save(), from debugApp.saveState()
SaveState ==
  /\ storage' = << appState >>
  /\ UNCHANGED << appState, transitions, sectionRest >>

\* AppStateManager.load(), from debugApp.loadState(): Object.assign of the
\* saved state onto the state
LoadState ==
  /\ storage # << >>
  /\ appState' = storage[1]
  /\ UNCHANGED << storage, transitions, sectionRest >>

\* ------------------------------------------------------------ the piano
\* PIANO_CONFIG.keyboardMappings: the notes of the keyboard, four of twelve
Notes == {"C", "D", "E", "F"}
FirstNote == "C"

\* PianoStateManager.getProgress().isComplete
IsComplete(p) == Cardinality(p.uniqueKeys) >= requiredKeysForUnlock

\* an unlock test that looks at the progress only
ShouldUnlockIgnoresFlag(p) == IsComplete(p)

\* activateKey: the test made before unlockPiano()
ShouldUnlock(p) == (~p.isUnlocked) /\ IsComplete(p)

\* a next-button handler that does not look at isUnlocked
MayLeavePianoAlways(p) == TRUE

\* PianoNextButton click handler: the test before transitionToSection('gift')
MayLeavePiano(p) == p.isUnlocked

\* activateKey: if (window.particleEngine) spawnBurst(...)
KeyParticles ==
  IF windowParticleEngine
  THEN DoSpawn("spawnBurst", KeySite, MaxCount, 0, BurstCount(MaxCount, isMobile))
  ELSE /\ lastOp' = Op("activateKey")
       /\ UNCHANGED << hostVars, particleEngine, inited, surfaceVars, loopVars,
                       poolVars >>

\* unlockPiano: if (window.particleEngine) spawnExplosion(centre, 30, {speed: 5})
UnlockParticles ==
  IF windowParticleEngine
  THEN DoSpawn("spawnExplosion", UnlockSite, MaxCount, 0,
               ExplosionCount(MaxCount, isMobile))
  ELSE /\ lastOp' = Op("unlockPiano")
       /\ UNCHANGED << hostVars, particleEngine, inited, surfaceVars, loopVars,
                       poolVars >>

\* PianoKeyHandler.activateKey(note) up to await playNote: the note joins
\* uniqueKeys, the key bursts into particles, a ripple is made when the
\* ripple effect has its container, and the call is suspended on the audio
ActivateKey(note) ==
  /\ piano.suspended < MaxSuspended
  /\ rippleEffect.container =>
       Len(rippleEffect.timers) < maxRipples + ExtraRipples
  /\ piano' = [piano EXCEPT !.uniqueKeys = @ \cup {note}, !.suspended = @ + 1]
  /\ KeyParticles
  /\ rippleEffect' = IF rippleEffect.container THEN RippleCreate(rippleEffect)
                                                ELSE rippleEffect
  /\ calls' = IF rippleEffect.container THEN CountCall ELSE calls
  /\ UNCHANGED << loadVars, confettiEngine, rainEngine, formVars, gift, sectionVars >>

\* activateKey after await playNote: the progress is read again, and
\* unlockPiano() is called when the piano is complete and not yet unlocked:
\* isUnlocked, the button enabled, the explosion
ResumeKey ==
  /\ piano.suspended > 0
  /\ IF ShouldUnlock(piano)
     THEN /\ piano' = [piano EXCEPT !.suspended = @ - 1, !.isUnlocked = TRUE,
                                    !.buttonDisabled = FALSE, !.unlocks = @ + 1]
          /\ UnlockParticles
     ELSE /\ piano' = [piano EXCEPT !.suspended = @ - 1,
                                    !.skipped = @ \/ IsComplete(piano)]
          /\ UNCHANGED engineVars
  /\ UNCHANGED << loadVars, emitterVars, formVars, gift, sectionVars >>

\* PianoController.reset(), from pianoDebug.reset(): the state manager's
\* state is replaced; the button is left as it is
PianoReset ==
  /\ piano.resets < MaxPianoResets
  /\ piano' = [piano EXCEPT !.uniqueKeys = {}, !.isUnlocked = FALSE,
                            !.unlocks = 0, !.skipped = FALSE, !.resets = @ + 1]
  /\ UNCHANGED pianoRest

\* a click on btnPianoNext, or Enter or Space on it: a disabled button
\* dispatches no click
NextClick(found) ==
  /\ ~piano.buttonDisabled
  /\ IF MayLeavePiano(piano)
     THEN StartTransition("piano-next", "gift", found)
     ELSE UNCHANGED << appState, transitions >>
  /\ UNCHANGED << storage, sectionRest >>

\* a caller's particleEngine.pool.get()
GetCall ==
  /\ inited
  /\ getActiveCount < MaxCount
  /\ SetPool(PoolGet(PoolState, configLifetime))
  /\ lastOp' = Op("get")
  /\ UNCHANGED << hostVars, pageVars, particleEngine, inited, surfaceVars, loopVars >>

\* a caller's particleEngine.pool.release(particle), for a particle of the
\* pool, live or not
ReleaseCall(id) ==
  /\ inited
  /\ id \in DOMAIN particles
  /\ SetPool(PoolRelease(PoolState, id, configLifetime))
  /\ lastOp' = Op("release")
  /\ UNCHANGED << hostVars, pageVars, particleEngine, inited, surfaceVars, loopVars >>

\* The arguments of a spawn call.  A call that returns at its budget check
\* reads none of them, so one call stands for all.
SpawnCalls ==
  IF inited /\ ~OverBudget(getActiveCount, maxParticles)
  THEN [site : CallSites, count : Counts, seed : Seeds]
  ELSE {[site |-> DefaultSite, count |-> MaxCount, seed |-> 0]}

\* The engine under its callers: the page stays visible, the frame loop runs
\* every FrameMs, and the spawn operations are called between frames.
Next ==
  \/ \E vp \in {DefaultViewport} : InitParticles(vp)
  \/ FrameTick
  \/ \E c \in SpawnCalls : SpawnBurst(c.site, c.count, c.seed)
  \/ \E c \in SpawnCalls : SpawnExplosion(c.site, c.count, c.seed)
  \/ \E c \in SpawnCalls : SpawnFountain(c.site, c.count, c.seed)
  \/ \E c \in SpawnCalls : SpawnTrail(c.site, c.count, c.seed)

Spec == Init /\ [][Next]_vars

\* The engine under its host: visibility changes, resizes, time passing with
\* no frame, and teardown, with bursts from one call site.
NextLife ==
  \/ \E vp \in Viewports : InitParticles(vp)
  \/ FrameTick
  \/ Tick
  \/ VisibilityChange
  \/ \E vp \in Viewports : Resize(vp)
  \/ \E count \in {MaxCount} : SpawnBurst(DefaultSite, count, 0)
  \/ Clear
  \/ Destroy

SpecLife == Init /\ [][NextLife]_vars

\* The engine and its frame loop under a caller: pause(), resume(),
\* getStats() and clear() called at any time, the largest burst from every
\* call site, and an engine whose canvas gives no 2D context.
NextLoop ==
  \/ \E vp \in {DefaultViewport} : InitParticles(vp)
  \/ \E vp \in {DefaultViewport} : InitParticlesNoContext(vp)
  \/ FrameTick
  \/ Tick
  \/ PauseCall
  \/ ResumeCall
  \/ GetStats
  \/ \E site \in CallSites : SpawnBurst(site, MaxCount, 0)
  \/ Clear

SpecLoop == Init /\ [][NextLoop]_vars

\* The pool of an initialized engine under a caller of get() and release().
NextPool ==
  \/ \E vp \in {DefaultViewport} : InitParticles(vp)
  \/ GetCall
  \/ \E id \in DOMAIN particles : ReleaseCall(id)

SpecPool == Init /\ [][NextPool]_vars

\* The frame loop alone, no particle spawned: every interleaving of init
\* (with or without a 2D context), a caller's pause() and resume(),
\* visibility changes, frames, and destroy().
NextSched ==
  \/ \E vp \in {DefaultViewport} : InitParticles(vp)
  \/ \E vp \in {DefaultViewport} : InitParticlesNoContext(vp)
  \/ Frame(SchedTime)
  \/ TickUntil(SchedTime)
  \/ PauseCall
  \/ ResumeCall
  \/ VisibilityChange
  \/ Destroy

SpecSched == Init /\ [][NextSched]_vars

\* The page loading particles.js in either order, piano keys pressed and
\* window.spawnParticles called at any moment, frames firing.
NextLoad ==
  \/ EvaluateScriptLoading
  \/ \E vp \in {DefaultViewport} : EvaluateScriptReady(vp)
  \/ \E vp \in {DefaultViewport} : DOMContentLoaded(vp)
  \/ \E note \in {FirstNote} : ActivateKey(note)
  \/ ResumeKey
  \/ SpawnParticles
  \/ Frame(SchedTime)

SpecLoad == Init /\ [][NextLoad]_vars

\* The ripple emitter: clicks create ripples and the removal timers fire,
\* in every interleaving, with destroy() at any moment.
NextRipple ==
  \/ RippleInit
  \/ CreateRipple
  \/ RippleTimeout
  \/ RippleDestroy

SpecRipple == Init /\ [][NextRipple]_vars

\* The confetti emitter: createConfetti() and clear() called at any moment,
\* the cleanup timers firing in any order.
NextConfetti ==
  \/ CreateConfetti
  \/ ConfettiCleanup
  \/ ConfettiOrphanCleanup
  \/ ConfettiClear

SpecConfetti == Init /\ [][NextConfetti]_vars

\* The rain emitter: start(), stop() and clear() called at any moment, burst
\* timers and removal timers firing in any order.
NextRain ==
  \/ RainStart
  \/ RainBurst
  \/ RainStop
  \/ RainParticleTimeout
  \/ RainSparkleTimeout
  \/ RainOrphanTimeout
  \/ RainClear

SpecRain == Init /\ [][NextRain]_vars

\* The message form: typing, submitting by every route, and the attempts of
\* the send succeeding or failing.
NextForm ==
  \/ \E message \in MessageLengths, name \in NameLengths :
       ValidateMessage(message, name)
  \/ \E trigger \in SubmitTriggers : SubmitForm(trigger)
  \/ AttemptSucceeds
  \/ AttemptFails
  \/ RetryTimer
  \/ SuccessTimers

SpecForm == Init /\ [][NextForm]_vars

\* The same, where every attempt settles and every retry timer fires.
SpecSend ==
  /\ Init /\ [][NextForm]_vars
  /\ WF_vars(AttemptSucceeds \/ AttemptFails)
  /\ WF_vars(RetryTimer)

\* The gift section: every trigger of openGift at any moment, the countdown
\* and the auto-open timeout, the timers of the open sequence, and reset().
NextGift ==
  \/ GiftInit
  \/ \E source \in DirectSources : GiftTrigger(source)
  \/ \E source \in GlobalSources : GlobalTrigger(source)
  \/ UpdateCountdown
  \/ AutoOpenTimer
  \/ \E k \in 1 .. (MaxResets + 1) : OpenTimer(k)
  \/ GiftReset

SpecGift == Init /\ [][NextGift]_vars

\* The piano: particles.js is evaluated at some moment, keys are pressed
\* and their calls resume after the audio in any order, the piano is reset,
\* the next button is clicked, and the transition it asks for runs.
NextPiano ==
  \/ \E vp \in {DefaultViewport} : EvaluateScriptReady(vp)
  \/ \E note \in Notes : ActivateKey(note)
  \/ ResumeKey
  \/ PianoReset
  \/ \E found \in BOOLEAN : NextClick(found)
  \/ \E i \in 1 .. MaxRunning : AnimateOutDone(i)
  \/ \E i \in 1 .. MaxRunning : AnimateInDone(i)
  \/ CanTransitionTimer

SpecPiano == Init /\ [][NextPiano]_vars

\* The sections: every caller of transitionToSection at any moment, the
\* animations and the timer in any order, the state saved and loaded.
NextSection ==
  \/ \E next \in SectionNames, found \in BOOLEAN : TransitionToSection(next, found)
  \/ \E found \in BOOLEAN : HandleClick(found)
  \/ \E i \in 1 .. MaxRunning : AnimateOutDone(i)
  \/ \E i \in 1 .. MaxRunning : AnimateInDone(i)
  \/ CanTransitionTimer
  \/ SaveState
  \/ LoadState

SpecSection == Init /\ [][NextSection]_vars

\* The three emitters together until the page has made MaxCalls creating
\* calls; every pending removal timer eventually fires.
NextRest ==
  \/ RippleInit
  \/ calls < MaxCalls /\ CreateRipple
  \/ RippleTimeout
  \/ RippleDestroy
  \/ calls < MaxCalls /\ CreateConfetti
  \/ ConfettiCleanup
  \/ ConfettiOrphanCleanup
  \/ ConfettiClear
  \/ calls < MaxCalls /\ RainStart
  \/ (rainEngine.isActive => calls < MaxCalls) /\ RainBurst
  \/ RainStop
  \/ RainParticleTimeout
  \/ RainSparkleTimeout
  \/ RainOrphanTimeout
  \/ RainClear

SpecRest ==
  /\ Init /\ [][NextRest]_vars
  /\ WF_vars(RippleTimeout)
  /\ WF_vars(ConfettiCleanup) /\ WF_vars(ConfettiOrphanCleanup)
  /\ WF_vars(RainParticleTimeout) /\ WF_vars(RainSparkleTimeout)
  /\ WF_vars(RainOrphanTimeout)

\* The engine as the page drives it: pause() and resume() are reached only
\* through the visibilitychange listener, as in every script of the page;
\* bursts are spawned before the first clock step.
NextHost ==
  \/ \E vp \in {DefaultViewport} : InitParticles(vp)
  \/ Frame(SchedTime)
  \/ TickUntil(SchedTime)
  \/ VisibilityChange
  \/ \E site \in {DefaultSite} : now = 0 /\ SpawnBurst(site, MaxCount, 0)
  \/ Destroy

SpecHost == Init /\ [][NextHost]_vars

\* The running engine: never paused, the frame callback fires as long as a
\* request is pending and the clock has not reached LiveTime, and spawning
\* stops after the first clock step.
NextFair ==
  \/ \E vp \in {DefaultViewport} : InitParticles(vp)
  \/ Frame(LiveTime)
  \/ \E c \in SpawnCalls : now = 0 /\ SpawnBurst(c.site, c.count, c.seed)
  \/ \E c \in SpawnCalls : now = 0 /\ SpawnTrail(c.site, c.count, c.seed)

\* The condition under which the browser owes the engine a frame: the guard
\* of Frame(LiveTime), with the clock step it takes.  Only Frame changes now.
FrameDue ==
  /\ particleEngine
  /\ ~hidden
  /\ now + FrameMs <= LiveTime
  /\ rafQueue # {}
  /\ now' = now + FrameMs

\* A requested frame is eventually delivered while the page is visible.
SpecFair == Init /\ [][NextFair]_vars /\ WF_now(FrameDue)

\* ------------------------------------------------------------------ claims
SpawnOps == {"spawnBurst", "spawnExplosion", "spawnFountain", "spawnTrail"}

\* the last operation was a spawn call that passed its budget check
Spawned ==
  lastOp.op \in SpawnOps /\ ~lastOp.threw /\ lastOp.before < maxParticles

\* the particles the last spawn call added: those after the first
\* lastOp.before of the live list
NewCount == Len(active) - lastOp.before
NewParticleAt(i) == particles[active[lastOp.before + i + 1]]

Ids(seq) == {seq[k] : k \in 1 .. Len(seq)}

\* C1: the number of live particles never exceeds maxParticles, whatever
\* spawn calls and frame ticks have run.
C1_BudgetNeverExceeded == inited => getActiveCount <= maxParticles

\* C2: right after clear() or destroy() no particle is live and every
\* particle object is inactive.
C2_ClearReleasesAll ==
  lastOp.op \in {"clear", "destroy"} =>
    /\ getActiveCount = 0
    /\ \A id \in DOMAIN particles : ~particles[id].active

\* C3: once destroy() has run (the canvas is detached), no frame request is
\* pending and no update/render pass runs again.
C3_DestroyIsTerminal ==
  (inited /\ ~canvas.attached) =>
    /\ rafQueue = {}
    /\ animationId = 0
    /\ lastOp.op \notin {"animate", "resume"}

C5_OverBudgetSpawnIsNoOp ==
  [][(lastOp'.op \in SpawnOps /\ getActiveCount >= maxParticles)
       => UNCHANGED << particles, pool, active >>]_vars

C5_Witness ==
  /\ lastOp.op = "spawnFountain"
  /\ lastOp.before >= maxParticles
  /\ getActiveCount = lastOp.before

\* C6: off mobile, spawnBurst(x, y, N) under budget with no angle override
\* adds exactly N live particles, the i-th launched at angle 2*pi*i/N, its
\* velocity pointing along that angle.
C6_BurstAnglesEvenlySpaced ==
  (Spawned /\ lastOp.op = "spawnBurst" /\ ~isMobile
     /\ "angle" \notin DOMAIN lastOp.options) =>
    /\ NewCount = lastOp.count
    /\ \A i \in 0 .. (lastOp.count - 1) :
         LET p == NewParticleAt(i)
         IN  /\ p.active
             /\ p.angle = (TwoPi * i) \div lastOp.count
             /\ p.vx = (Cos(p.angle) * p.speed) \div Scale
             /\ p.vy = (Sin(p.angle) * p.speed) \div Scale

C6_Witness ==
  /\ Spawned /\ lastOp.op = "spawnBurst" /\ ~isMobile
  /\ "angle" \notin DOMAIN lastOp.options
  /\ lastOp.count = MaxCount
  /\ NewCount = MaxCount

\* C7: on mobile each of the four spawn operations, called under budget,
\* adds ceil(count * spawnRate) particles.
C7_MobileReducesAllFour ==
  (Spawned /\ isMobile) =>
    /\ 100 * NewCount >= SpawnRatePct * lastOp.count
    /\ 100 * (NewCount - 1) < SpawnRatePct * lastOp.count

\* C8: on mobile spawnBurst(x, y, N), called under budget, adds exactly
\* ceil(N * spawnRate) particles: the least m with m >= N * spawnRate.
C8_MobileBurstCount ==
  (Spawned /\ isMobile /\ lastOp.op = "spawnBurst") =>
    /\ 100 * NewCount >= SpawnRatePct * lastOp.count
    /\ 100 * (NewCount - 1) < SpawnRatePct * lastOp.count

\* an odd count: 3 requested, 2 spawned
C8_Witness ==
  /\ Spawned /\ isMobile /\ lastOp.op = "spawnBurst"
  /\ lastOp.count = 3
  /\ NewCount = 2

\* what Particle.spawn makes of the last call's arguments alone, for the
\* i-th particle of n, at the current time
ExpectedParticle(i, n) ==
  LET o == PatternOptions(lastOp.op, lastOp.options, lastOp.seed, i, n)
      r(slot) == Random(lastOp.seed, i, slot)
      angle == IF "angle" \in DOMAIN o THEN o.angle ELSE (r(2) * TwoPi) \div Scale
      speed == IF "speed" \in DOMAIN o THEN o.speed
               ELSE r(3) * (SpeedMax - SpeedMin) + SpeedMin * Scale
  IN  [active |-> TRUE,
       x |-> lastOp.x * Scale,
       y |-> lastOp.y * Scale,
       vx |-> (Cos(angle) * speed) \div Scale,
       vy |-> (Sin(angle) * speed) \div Scale,
       size |-> IF "size" \in DOMAIN o THEN o.size
                ELSE r(4) * (SizeMax - SizeMin) + SizeMin * Scale,
       color |-> IF "color" \in DOMAIN o THEN o.color
                 ELSE colors[((r(5) * Len(colors)) \div Scale) + 1],
       life |-> Scale,
       maxLife |-> IF "lifetime" \in DOMAIN o THEN o.lifetime ELSE configLifetime,
       birthTime |-> now,
       rotation |-> (r(6) * TwoPi) \div Scale,
       rotationSpeed |-> (r(7) - Scale \div 2) \div 10,
       angle |-> angle,
       speed |-> speed]

\* C9: after a spawn call every field of every particle it spawned, recycled
\* or new, is what the call's arguments, the current time and the random
\* draws give; with no color override the color is one of the palette.
C9_RecycledParticleCarriesNoState ==
  Spawned =>
    \A i \in 0 .. (NewCount - 1) :
      /\ NewParticleAt(i) = ExpectedParticle(i, NewCount)
      /\ "color" \notin DOMAIN lastOp.options => NewParticleAt(i).color \in Ids(colors)

\* a call with no color override has spawned a recycled object
C9_Witness ==
  /\ Spawned
  /\ lastOp.recycled > 0
  /\ "color" \notin DOMAIN lastOp.options

\* C10: the free list never holds more than poolSize particles and no
\* object is in a list twice; the pool never owns fewer than poolSize
\* objects, so a live list longer than poolSize holds freshly allocated
\* ones; a frame that releases a live list longer than poolSize leaves
\* exactly poolSize objects, all in the free list.
C10_FreeListBoundedByPoolSize ==
  /\ Len(pool) <= poolSize
  /\ Cardinality(Ids(active) \cup Ids(pool)) = Len(active) + Len(pool)
  /\ inited => Cardinality(DOMAIN particles) >= poolSize
  /\ (lastOp.op = "animate" /\ lastOp.before > poolSize /\ Len(active) = 0) =>
       /\ Len(pool) = poolSize
       /\ Cardinality(DOMAIN particles) = poolSize

\* more than poolSize particles were live and a frame released them all
C10_Witness ==
  /\ lastOp.op = "animate"
  /\ lastOp.before > poolSize
  /\ Len(active) = 0
  /\ Len(pool) = poolSize

C12_PauseResumeIdempotent ==
  [][/\ (lastOp.op = "pause" /\ lastOp'.op = "pause") =>
          /\ UNCHANGED << loopVars, poolVars >>
          /\ animationId = 0 /\ rafQueue = {}
     /\ (lastOp.op = "resume" /\ lastOp'.op = "resume") =>
          /\ UNCHANGED << loopVars, poolVars >>
          /\ lastOp'.drawn = << >>
          /\ rafQueue = {animationId}]_vars

\* resume() found the loop running and did nothing, on an engine with live
\* particles that an earlier resume() had restarted after a pause(): two
\* passes (init and that resume) have run and no frame yet
C12_Witness ==
  /\ lastOp.op = "resume"
  /\ lastOp.drawn = << >>
  /\ Len(active) > 0
  /\ animationId # 0
  /\ fpsState.frameCount = 2
  /\ now = 0

C14_GetStatsReadOnly ==
  [][(lastOp'.op = "getStats" /\ inited) =>
       /\ UNCHANGED << particleEngine, inited, surfaceVars, loopVars, poolVars >>
       /\ ~lastOp'.threw
       /\ lastOp'.stats.activeParticles = Cardinality(held)
       /\ lastOp'.stats.activeParticles = Len(active)]_vars

\* getStats() reported live particles while the free list had another length
C14_Witness ==
  /\ lastOp.op = "getStats"
  /\ inited
  /\ lastOp.stats.activeParticles > 0
  /\ lastOp.stats.activeParticles = Len(active)
  /\ Len(pool) # Len(active)

\* times after now at which a particle is updated
UpdateDelays == {0, 499, 500, 1500, 2000}

\* C15: for every live particle (spawned with a positive lifetime L at t0)
\* and any two later updates at times t1 <= t2, the life the first computes
\* is at most the life the particle had, the life the second computes is at
\* most the first's, and an update at a time >= t0 + L computes life <= 0
\* and deactivates the particle.
C15_LifeNonIncreasing ==
  \A id \in Ids(active) :
    LET p == particles[id]
    IN  (p.active /\ p.maxLife > 0) =>
          \A d1 \in UpdateDelays :
            \A p1 \in {ParticleUpdate(p, now + d1)} :
              /\ p1.life <= p.life
              /\ now + d1 >= p.birthTime + p.maxLife =>
                    (p1.life <= 0 /\ ~p1.active)
              /\ p1.active =>
                    \A d2 \in {d \in UpdateDelays : d >= d1} :
                      \A p2 \in {ParticleUpdate(p1, now + d2)} :
                        /\ p2.life <= p1.life
                        /\ now + d2 >= p.birthTime + p.maxLife =>
                              (p2.life <= 0 /\ ~p2.active)

\* a frame has updated a particle that is still live, part of its life gone
C15_Witness ==
  /\ lastOp.op = "animate"
  /\ \E id \in Ids(active) :
       /\ particles[id].active
       /\ particles[id].life > 0
       /\ particles[id].life < Scale
       /\ now < particles[id].birthTime + particles[id].maxLife

\* C16: every particle of a spawnFountain call with no angle override is
\* launched at an angle within spread/2 of -pi/2, its velocity along that
\* angle and pointing up; and so for every value Math.random() can return
\* (the draw does not read the engine: tried on calls to an empty engine).
C16_FountainSpread ==
  (Spawned /\ lastOp.op = "spawnFountain" /\ "angle" \notin DOMAIN lastOp.options) =>
    LET lo == (0 - HalfPi) - FountainSpread \div 2
        hi == (0 - HalfPi) + FountainSpread \div 2
    IN  /\ \A i \in 0 .. (NewCount - 1) :
             LET p == NewParticleAt(i)
             IN  /\ lo <= p.angle /\ p.angle <= hi
                 /\ p.vx = (Cos(p.angle) * p.speed) \div Scale
                 /\ p.vy = (Sin(p.angle) * p.speed) \div Scale
                 /\ p.vy < 0
        /\ lastOp.before = 0 =>
             \A seed \in 0 .. (Scale - 1) :
               \A a \in {FountainOptions(lastOp.options, seed, 0, NewCount).angle} :
                 lo <= a /\ a <= hi

\* a fountain of MaxCount particles with no override
C16_Witness ==
  /\ Spawned /\ lastOp.op = "spawnFountain"
  /\ lastOp.options = NoOptions
  /\ NewCount = MaxCount

\* option keys and the particle field each one sets
OptionKeys == {"angle", "speed", "size", "color", "lifetime"}
FieldOf(key) == IF key = "lifetime" THEN "maxLife" ELSE key
FullOptions ==
  [angle |-> 0, speed |-> 5 * Scale, size |-> 6 * Scale, color |-> "#FFD700",
   lifetime |-> 500]

\* particle i of n of operation name called with options o follows o for
\* the keys o has and, for the others, the same call made with no options
Overrides(p, name, o, seed, i, n) ==
  \A q \in {ParticleSpawn(NewParticle(configLifetime), 0, 0,
                           PatternOptions(name, NoOptions, seed, i, n),
                           seed, i, now, configLifetime)} :
    /\ \A key \in OptionKeys :
         p[FieldOf(key)] = IF key \in DOMAIN o THEN o[key] ELSE q[FieldOf(key)]
    /\ p.vx = (Cos(p.angle) * p.speed) \div Scale
    /\ p.vy = (Sin(p.angle) * p.speed) \div Scale

C18_ListsDisjointNoDuplicates ==
  /\ Ids(active) \cap Ids(pool) = {}
  /\ Cardinality(Ids(pool)) = Len(pool)
  /\ Cardinality(Ids(active)) = Len(active)

\* C19: between engine operations a particle is active iff it is in the
\* live list, and every particle of the free list is inactive.
C19_ActiveIffLive ==
  inited =>
    /\ \A id \in DOMAIN particles : particles[id].active <=> id \in Ids(active)
    /\ \A id \in Ids(pool) : ~particles[id].active

\* clear() released some particles and left others live
C19_Witness ==
  /\ lastOp.op = "clear"
  /\ lastOp.before > Len(active)
  /\ Len(active) > 0
  /\ Len(pool) > 0

\* C20: a frame tick leaves live exactly the particles whose lifetime has
\* not run out at the time of the tick, each active with life > 0, and
\* paints exactly those: a particle that expires is released in that pass
\* and is not painted.
C20_NoLagOnExpiry ==
  [][lastOp'.op = "animate" =>
       /\ Len(active') =
            Cardinality({k \in 1 .. Len(active) :
                           now' < particles[active[k]].birthTime
                                    + particles[active[k]].maxLife})
       /\ \A id \in Ids(active') :
            /\ particles'[id].active
            /\ particles'[id].life > 0
            /\ now' < particles'[id].birthTime + particles'[id].maxLife
       /\ lastOp'.drawn = active']_vars

\* a frame released expired particles, two or more, and painted the rest
C20_Witness ==
  /\ lastOp.op = "animate"
  /\ lastOp.before >= Len(active) + 2
  /\ Len(active) > 0
  /\ lastOp.drawn = active

\* the live particles a pass at time t leaves live, in the order of the list
Survivors(t) ==
  SelectSeq(active, LAMBDA id : t < particles[id].birthTime + particles[id].maxLife)

\* C21: a frame tick leaves each particle that outlives it exactly as one
\* update() makes it, the survivors in their order, whichever particles
\* before, between or after them expire and are released in the pass: none
\* is skipped and none is updated twice.
C21_UpdatedExactlyOnce ==
  [][lastOp'.op = "animate" =>
       /\ Len(active') = Len(Survivors(now'))
       /\ \A k \in 1 .. Len(active') :
            particles'[active'[k]] = ParticleUpdate(particles[Survivors(now')[k]], now')
       /\ \A id \in Ids(pool') : particles'[id] = NewParticle(configLifetime)]_vars

\* a frame released the first particle of the live list and kept two or
\* more after it
C21_Witness ==
  /\ lastOp.op = "animate"
  /\ lastOp.before = Len(active) + 1
  /\ Len(active) >= 2
  /\ \A id \in Ids(active) : particles[id].birthTime < now

\* C22: what a frame tick paints is the live particles as its own update
\* pass left them, so every particle painted, one spawned since the last
\* tick included, has been updated in that tick; a spawn call paints
\* nothing.
C22_UpdateBeforeRender ==
  [][/\ lastOp'.op = "animate" =>
          /\ Len(lastOp'.painted) = Len(Survivors(now'))
          /\ \A k \in 1 .. Len(lastOp'.painted) :
               lastOp'.painted[k] = ParticleUpdate(particles[Survivors(now')[k]], now')
          /\ lastOp'.steps = << "requestAnimationFrame", "updateFPS", "clearRect",
                                "update", "draw" >>
     /\ lastOp'.op \in SpawnOps => lastOp'.painted = << >>]_vars

\* particles spawned by two calls since the last tick were painted, each
\* moved from where it was spawned
C22_Witness ==
  /\ lastOp.op = "animate"
  /\ Len(lastOp.painted) >= 2
  /\ \A k \in 1 .. Len(lastOp.painted) :
       /\ lastOp.painted[k].birthTime = 0
       /\ lastOp.painted[k].life < Scale
       /\ lastOp.painted[k].x # 100 * Scale \/ lastOp.painted[k].y # 100 * Scale
  /\ lastOp.painted[1].maxLife # lastOp.painted[Len(lastOp.painted)].maxLife

\* C23: under every interleaving of init, pause, resume, visibility changes
\* and frames at most one frame request is pending, and it is the one
\* animationId names.
C23_SingleFrameRequest ==
  /\ Cardinality(rafQueue) <= 1
  /\ rafQueue \subseteq {animationId}
  /\ animationId = 0 => rafQueue = {}

\* the loop was paused and resumed and a frame has run since
C23_Witness ==
  /\ lastOp.op = "animate"
  /\ inited
  /\ fpsState.frameCount >= 3
  /\ Cardinality(rafQueue) = 1

\* C24: in a frame callback the request for the next frame comes after the
\* pool's update and draw.
C24_RequestAfterRender ==
  lastOp.op = "animate" =>
    /\ IndexOf(lastOp.steps, "draw") > 0
    /\ IndexOf(lastOp.steps, "requestAnimationFrame") > IndexOf(lastOp.steps, "draw")

\* C25: after an animate() has thrown, run as a frame callback or by
\* resume(), a frame request is pending, the one animationId names, so that
\* the next frame runs.
C25_ThrowKeepsLoopAlive ==
  (lastOp.op \in {"animate", "resume"} /\ lastOp.threw) =>
    /\ animationId # 0
    /\ rafQueue = {animationId}

\* a second frame callback ran after the first one threw: the FPS counter
\* has counted four passes in the first second, of which resume() made at
\* most two
C25_Witness ==
  /\ lastOp.op = "animate"
  /\ lastOp.threw
  /\ now = 2 * FrameMs
  /\ fpsState.fps = 4
  /\ rafQueue # {}

C27_EventuallyReleased == (Len(active) > 0) ~> (Len(active) = 0)

\* the last particles, of the longest lifetime, were released by the frame
\* at the end of their life
C27_Witness ==
  /\ lastOp.op = "animate"
  /\ lastOp.before > 0
  /\ Len(active) = 0
  /\ now = LiveTime
  /\ ~isMobile

\* C28: once initParticles() has run to its end, window.particleEngine refers
\* to the engine, and no key press finds it missing.
C28_WindowRefersToEngine ==
  (inited /\ script = "evaluated") =>
    (windowParticleEngine /\ lastOp.op # "activateKey")

\* C29: this.ripples never holds more than maxRipples elements, and a
\* createRipple at the cap shifts out the oldest tracked ripple, detaches it
\* and appends the new one.
C29_RippleCap ==
  /\ [](Len(rippleEffect.ripples) <= maxRipples)
  /\ [][(/\ Len(rippleEffect'.timers) > Len(rippleEffect.timers)
         /\ Len(rippleEffect.ripples) >= maxRipples)
        => (/\ Head(rippleEffect.ripples) \in rippleEffect.parent
            /\ Head(rippleEffect.ripples) \notin rippleEffect'.parent
            /\ Len(rippleEffect'.ripples) = maxRipples
            /\ SubSeq(rippleEffect'.ripples, 1, maxRipples - 1)
                 = Tail(rippleEffect.ripples)
            /\ rippleEffect'.ripples[maxRipples]
                 = rippleEffect'.timers[Len(rippleEffect'.timers)]
            /\ rippleEffect'.parent
                 = (rippleEffect.parent \ {Head(rippleEffect.ripples)})
                     \cup {rippleEffect'.ripples[maxRipples]})]_vars

\* a ripple was created at the cap: the evicted one is detached and
\* untracked while its timer is still pending
C29_Witness ==
  /\ Len(rippleEffect.ripples) = maxRipples
  /\ Len(rippleEffect.timers) = maxRipples + 1
  /\ rippleEffect.timers[1] \notin rippleEffect.parent
  /\ \A k \in 1 .. maxRipples : rippleEffect.ripples[k] = rippleEffect.timers[k + 1]

\* C30: the live confetti never exceed what one createConfetti() makes.
C30_ConfettiCapped == confettiEngine.particles <= confettiCount

\* pending removal timers of an emitter
ConfettiTimers == confettiEngine.particles + confettiEngine.orphans
RainTimers == rainEngine.particles + rainEngine.sparkles + rainEngine.orphans
RemovalPending ==
  rippleEffect.timers # << >> \/ ConfettiTimers > 0 \/ RainTimers > 0
AllRemoved ==
  /\ rippleEffect.timers = << >> /\ rippleEffect.ripples = << >>
  /\ rippleEffect.parent = {}
  /\ ConfettiTimers = 0 /\ RainTimers = 0

\* C31: a removal timer that fires detaches and untracks its own element and
\* no other, also after an eviction, a destroy() or a clear(); and every
\* element is gone once the timers have fired.
C31_RemovedOnTimeout ==
  /\ [][Len(rippleEffect'.timers) < Len(rippleEffect.timers)
         => \E id \in {Head(rippleEffect.timers)} :
              /\ rippleEffect'.timers = Tail(rippleEffect.timers)
              /\ rippleEffect'.parent = rippleEffect.parent \ {id}
              /\ rippleEffect'.ripples
                   = SelectSeq(rippleEffect.ripples, LAMBDA r : r # id)
              /\ Len(rippleEffect'.ripples)
                   >= Len(rippleEffect.ripples) - 1]_vars
  /\ [][ConfettiTimers' < ConfettiTimers
         => /\ ConfettiTimers' = ConfettiTimers - 1
            /\ confettiEngine'.particles
                 \in {confettiEngine.particles, confettiEngine.particles - 1}
            /\ confettiEngine'.orphans < confettiEngine.orphans
                 => confettiEngine'.particles = confettiEngine.particles]_vars
  /\ [][RainTimers' < RainTimers
         => /\ RainTimers' = RainTimers - 1
            /\ rainEngine'.particles + rainEngine'.sparkles
                 >= rainEngine.particles + rainEngine.sparkles - 1
            /\ rainEngine'.orphans < rainEngine.orphans
                 => /\ rainEngine'.particles = rainEngine.particles
                    /\ rainEngine'.sparkles = rainEngine.sparkles]_vars
  /\ [](\A k \in 1 .. Len(rippleEffect.ripples) :
          /\ rippleEffect.ripples[k] \in rippleEffect.parent
          /\ \E j \in 1 .. Len(rippleEffect.timers) :
               rippleEffect.timers[j] = rippleEffect.ripples[k])
  /\ (RemovalPending ~> AllRemoved)

\* all calls were ripples, one of them was evicted at the cap, and the
\* timer of the evicted ripple has fired
C31_Witness ==
  /\ calls = MaxCalls
  /\ Len(rippleEffect.ripples) = maxRipples
  /\ Len(rippleEffect.timers) = maxRipples
  /\ ConfettiTimers = 0 /\ RainTimers = 0 /\ ~rainEngine.container

\* C32: at most one burst timer is pending.
C32_OneBurstTimer == rainEngine.bursts <= 1

\* C33: after a send that failed for good the form can be submitted again:
\* isSubmitted and isSubmitting are false, the controls are enabled, and a
\* valid input leaves the submit button enabled.
C33_ResubmittableAfterFailure ==
  emailSend.phase = "failed" =>
    /\ ~messageForm.isSubmitted
    /\ ~messageForm.disabled
    /\ ~messageForm.isSubmitting
    /\ messageForm.isValid => ~messageForm.submitBtnDisabled

C35_OpensOnce ==
  /\ [](gift.opens <= 1)
  /\ [](gift.allOpens
          = gift.confettiMade
              + Cardinality({k \in 1 .. Len(gift.openTimers) : gift.openTimers[k] = 3}))
  /\ [][(gift'.flip # gift.flip /\ gift'.returned = "false")
         => /\ gift.isOpened \/ gift.isAnimating
            /\ confettiEngine' = confettiEngine
            /\ \E g \in {gift, [gift EXCEPT !.autoOpenTimer = FALSE],
                           [gift EXCEPT !.countdown = @ - 1,
                                        !.countdownInterval = FALSE]} :
                 gift' = [g EXCEPT !.source = gift'.source,
                                   !.returned = "false",
                                   !.flip = ~@]]_vars

\* the gift was opened by a click, its confetti was made, and the auto-open
\* timeout that fired afterwards was refused
C35_Witness ==
  /\ gift.opens = 1 /\ gift.allOpens = 1
  /\ gift.confettiMade = 1
  /\ gift.source = "auto-timer" /\ gift.returned = "false"
  /\ ~gift.autoOpenTimer
  /\ ~gift.isAnimating

\* a call of transitionToSection is made in this step
TransitionCalled == transitions'.flip # transitions.flip

\* a transition that was started completes in this step, and its target
\* becomes the current section
TransitionCompletes ==
  /\ Len(transitions'.running) = Len(transitions.running) - 1
  /\ \E i \in 1 .. Len(transitions.running) :
       /\ transitions.running[i].stage = "in"
       /\ transitions.running[i].to = appState'.currentSection

\* C38: at most one section transition is in progress at any time; a
\* transitionToSection call made while isTransitioning is true or
\* canTransition is false returns false and leaves the application state as
\* it was; and currentSection changes only in a step in which a started
\* transition completes.
C38_OneTransition ==
  /\ [](Len(transitions.running) <= 1)
  /\ [][(TransitionCalled /\ TransitionBlocked(appState))
          => (transitions'.returned = "false" /\ appState' = appState)]_vars
  /\ [][(appState'.currentSection # appState.currentSection)
          => TransitionCompletes]_vars

\* the next button's handler calls transitionToSection in this step
PianoNextCalled == TransitionCalled /\ transitions'.caller = "piano-next"

\* C36: the next button asks for the transition, and for the one to the
\* gift section, only when isUnlocked is true; and isUnlocked is true only
\* when at least requiredKeysForUnlock distinct notes have been activated
\* since the last reset.
C36_UnlockGatesGift ==
  /\ [](piano.isUnlocked => Cardinality(piano.uniqueKeys) >= requiredKeysForUnlock)
  /\ [][PianoNextCalled =>
          /\ piano.isUnlocked
          /\ transitions'.returned = "pending" =>
               transitions'.running[Len(transitions'.running)].to = "gift"]_vars

\* the next button started the transition to the gift section, the piano
\* being unlocked
C36_Witness ==
  /\ piano.isUnlocked
  /\ transitions.caller = "piano-next"
  /\ transitions.returned = "pending"
  /\ transitions.running # << >>

\* C37: unlockPiano runs at most once between resets, whatever number of
\* activateKey calls are suspended on the audio and in whatever order they
\* resume.
C37_UnlocksOnce == piano.unlocks <= 1

\* the piano was unlocked with the explosion, and a call that was suspended
\* resumed afterwards, found the piano complete, and did not unlock again
C37_Witness ==
  /\ piano.unlocks = 1
  /\ piano.skipped
  /\ windowParticleEngine

====
